---- MODULE Spec2Model ----
(***************************************************************************)
(* Model of the AD schema extraction pipeline                              *)
(* (scripts/parse_ms_ada_pdfs.py) and of its consumer                      *)
(* (src/ad_schema_tool/cli.py).                                            *)
(*                                                                         *)
(* A Python str is a sequence of characters; a character is a one-token    *)
(* string.  Optional[str] is either None or such a sequence.               *)
(***************************************************************************)
EXTENDS Integers, Sequences, FiniteSets, TLC

\* ------------------------------------------------------------------------
\* Characters and the str methods the code uses
\* ------------------------------------------------------------------------
NL == "\n"
SP == " "
NBSP == "nbsp"

\* Python's None; no str equals it ("None" is not a character).
None == <<"None">>

\* The characters re's \s and str.strip() treat as white space.
WhiteSpace == {SP, NL, NBSP, "\t", "\r"}

IsSpace(c) == c \in WhiteSpace

\* The characters re's \d accepts.
Digits == {"0", "1", "2", "3", "4", "5", "6", "7", "8", "9"}

UpperCase == <<"A", "B", "C", "D", "E", "F", "G", "H", "I", "J", "K", "L", "M",
               "N", "O", "P", "Q", "R", "S", "T", "U", "V", "W", "X", "Y", "Z">>

LowerCase == <<"a", "b", "c", "d", "e", "f", "g", "h", "i", "j", "k", "l", "m",
               "n", "o", "p", "q", "r", "s", "t", "u", "v", "w", "x", "y", "z">>

\* str.lower() on one character.
LowerChar(c) ==
    IF \E i \in 1..Len(UpperCase) : UpperCase[i] = c
    THEN LowerCase[CHOOSE i \in 1..Len(UpperCase) : UpperCase[i] = c]
    ELSE c

\* str.lower()
Lower(s) == SubSeq([i \in 1..Len(s) |-> LowerChar(s[i])], 1, Len(s))

MinOf(S) == CHOOSE x \in S : \A y \in S : x <= y

MaxOf(S) == CHOOSE x \in S : \A y \in S : y <= x

\* s[a:b] of Python with 1-based inclusive first index a and exclusive b; an
\* end past the text is clamped to the end of the text.
Slice(s, a, b) ==
    LET e == IF b > Len(s) + 1 THEN Len(s) + 1 ELSE b
    IN IF e <= a THEN <<>> ELSE SubSeq(s, a, e - 1)

\* str.strip()
Strip(s) ==
    LET keep == {i \in 1..Len(s) : ~IsSpace(s[i])}
        first == CHOOSE i \in keep : \A j \in 1..(i - 1) : IsSpace(s[j])
        last == CHOOSE i \in keep : \A j \in (i + 1)..Len(s) : IsSpace(s[j])
    IN IF keep = {} THEN <<>> ELSE SubSeq(s, first, last)

\* s.startswith(p) at 1-based offset i: the text at i is p.
MatchAt(s, i, p) ==
    /\ i >= 1
    /\ i + Len(p) - 1 <= Len(s)
    /\ \A j \in 1..Len(p) : s[i + j - 1] = p[j]

\* The same under re.IGNORECASE.
MatchAtNoCase(s, i, p) ==
    /\ i >= 1
    /\ i + Len(p) - 1 <= Len(s)
    /\ \A j \in 1..Len(p) : LowerChar(s[i + j - 1]) = LowerChar(p[j])

\* p in s
Contains(s, p) == \E i \in 1..(Len(s) + 1) : MatchAt(s, i, p)

\* s.endswith(p)
EndsWith(s, p) == Len(s) >= Len(p) /\ MatchAt(s, Len(s) - Len(p) + 1, p)

\* NormalizeWhitespace leaving the value as captured.
NormalizeKeep(s) == s

\* re.sub(r"\s+", " ", s): every maximal run of white space becomes one space.
NormalizeWhitespace(s) ==
    LET kept == SelectSeq([i \in 1..Len(s) |-> i],
                          LAMBDA i : ~IsSpace(s[i]) \/ i = 1 \/ ~IsSpace(s[i - 1]))
    IN SubSeq([k \in 1..Len(kept) |-> IF IsSpace(s[kept[k]]) THEN SP ELSE s[kept[k]]],
              1, Len(kept))

\* s.split("\n")
RECURSIVE SplitFrom(_, _)
SplitFrom(s, i) ==
    LET nls == {j \in i..Len(s) : s[j] = NL}
    IN IF nls = {} THEN <<Slice(s, i, Len(s) + 1)>>
       ELSE <<Slice(s, i, MinOf(nls))>> \o SplitFrom(s, MinOf(nls) + 1)

SplitLines(s) == SplitFrom(s, 1)

\* s.replace(p, "") for a non-empty p: leftmost non-overlapping occurrences go.
RECURSIVE RemoveFrom(_, _, _)
RemoveFrom(s, i, p) ==
    LET hits == {j \in i..Len(s) : MatchAt(s, j, p)}
    IN IF hits = {} THEN Slice(s, i, Len(s) + 1)
       ELSE Slice(s, i, MinOf(hits)) \o RemoveFrom(s, MinOf(hits) + Len(p), p)

RemoveAll(s, p) == RemoveFrom(s, 1, p)

\* ------------------------------------------------------------------------
\* The regular expressions of MSADAPDFParser.__init__
\* ------------------------------------------------------------------------
\* ^ under re.MULTILINE: at the start of the text or right after a newline.
AtLineStart(t, p) == p = 1 \/ (p > 1 /\ p - 1 <= Len(t) /\ t[p - 1] = NL)

\* The positions of b where ^ holds under re.MULTILINE.
LineStarts(b) ==
    IF Len(b) = 0 THEN {} ELSE {1} \cup {p + 1 : p \in {q \in 1..(Len(b) - 1) : b[q] = NL}}

\* First position at or after p that is not in cls (Len(t)+1 if none):
\* where a greedy \d+ or \s+ started at p stops.
RunEnd(t, p, cls) ==
    CHOOSE q \in p..(Len(t) + 1) :
      /\ q = Len(t) + 1 \/ t[q] \notin cls
      /\ \A r \in p..(q - 1) : t[r] \in cls

\* Where "." stops when started at p: the next newline or the end of the text.
LineEnd(t, p) ==
    CHOOSE q \in p..(Len(t) + 1) :
      /\ q = Len(t) + 1 \/ t[q] = NL
      /\ \A r \in p..(q - 1) : t[r] # NL

\* The tail  \s{least,}(.+)$  started at q.  The greedy \s run is given back
\* one character at a time until (.+) has a character other than a newline to
\* start on; (.+) then runs to the end of that line, where $ holds.
\* The set of [gstart, gend) pairs: empty (no match) or a singleton.
TailMatch(t, q, least) ==
    LET w == RunEnd(t, q, WhiteSpace)
        starts == {g \in (q + least)..w : g <= Len(t) /\ t[g] # NL}
    IN IF starts = {} THEN {}
       ELSE {[gstart |-> MaxOf(starts), gend |-> LineEnd(t, MaxOf(starts))]}

AttributeWord == <<"A", "t", "t", "r", "i", "b", "u", "t", "e">>

\* attribute_header_pattern  ^(\d+\.\d+)\s+Attribute\s+(.+)$  tried at p.
\* The set of matches at p: empty or a singleton.
HeaderMatchAt(t, p) ==
    IF ~(AtLineStart(t, p) /\ p <= Len(t)) THEN {}
    ELSE
      LET d1 == RunEnd(t, p, Digits)
          d2 == RunEnd(t, d1 + 1, Digits)
          w1 == RunEnd(t, d2, WhiteSpace)
      IN IF /\ d1 > p
            /\ d1 <= Len(t) /\ t[d1] = "."
            /\ d2 > d1 + 1
            /\ w1 > d2
            /\ MatchAt(t, w1, AttributeWord)
         THEN {[start |-> p,
                section |-> Slice(t, p, d2),
                label |-> Slice(t, m.gstart, m.gend),
                end |-> m.gend] :
                  m \in TailMatch(t, w1 + Len(AttributeWord), 1)}
         ELSE {}

\* attribute_header_pattern.finditer(text): the matches in text order, each
\* search resuming where the previous match ended; cands are the positions
\* where the pattern matches.
RECURSIVE HeaderMatchesFrom(_, _, _)
HeaderMatchesFrom(t, cands, from) ==
    LET ps == {p \in cands : p >= from}
    IN IF ps = {} THEN <<>>
       ELSE LET m == CHOOSE x \in HeaderMatchAt(t, MinOf(ps)) : TRUE
            IN <<m>> \o HeaderMatchesFrom(t, cands, m.end)

attribute_header_finditer(t) ==
    HeaderMatchesFrom(t, {p \in LineStarts(t) : HeaderMatchAt(t, p) # {}}, 1)

\* ------------------------------------------------------------------------
\* ADAttribute and field_patterns
\* ------------------------------------------------------------------------
\* The keys of field_patterns, in the dict's (insertion) order.
FieldNames ==
    <<"cn", "ldap_display_name", "attribute_id", "attribute_syntax",
      "om_syntax", "schema_id_guid", "is_single_valued", "system_only",
      "search_flags", "range_lower", "range_upper", "attribute_security_guid",
      "mapi_id", "is_member_of_partial_attribute_set", "system_flags",
      "schema_flags_ex">>

PatternFields == {FieldNames[i] : i \in 1..Len(FieldNames)}

\* The fields of the ADAttribute dataclass.
AttributeFields == PatternFields \cup {"source_section", "source_pdf"}

\* The label each pattern of field_patterns spells after the leading \xa0.
FieldLabel(f) ==
    IF f = "cn" THEN
        <<"c", "n">>
    ELSE IF f = "ldap_display_name" THEN
        <<"l", "d", "a", "p", "D", "i", "s", "p", "l", "a", "y", "N", "a",
          "m", "e">>
    ELSE IF f = "attribute_id" THEN
        <<"a", "t", "t", "r", "i", "b", "u", "t", "e", "I", "d">>
    ELSE IF f = "attribute_syntax" THEN
        <<"a", "t", "t", "r", "i", "b", "u", "t", "e", "S", "y", "n", "t",
          "a", "x">>
    ELSE IF f = "om_syntax" THEN
        <<"o", "m", "S", "y", "n", "t", "a", "x">>
    ELSE IF f = "schema_id_guid" THEN
        <<"s", "c", "h", "e", "m", "a", "I", "d", "G", "u", "i", "d">>
    ELSE IF f = "is_single_valued" THEN
        <<"i", "s", "S", "i", "n", "g", "l", "e", "V", "a", "l", "u", "e",
          "d">>
    ELSE IF f = "system_only" THEN
        <<"s", "y", "s", "t", "e", "m", "O", "n", "l", "y">>
    ELSE IF f = "search_flags" THEN
        <<"s", "e", "a", "r", "c", "h", "F", "l", "a", "g", "s">>
    ELSE IF f = "range_lower" THEN
        <<"r", "a", "n", "g", "e", "L", "o", "w", "e", "r">>
    ELSE IF f = "range_upper" THEN
        <<"r", "a", "n", "g", "e", "U", "p", "p", "e", "r">>
    ELSE IF f = "attribute_security_guid" THEN
        <<"a", "t", "t", "r", "i", "b", "u", "t", "e", "S", "e", "c", "u",
          "r", "i", "t", "y", "G", "u", "i", "d">>
    ELSE IF f = "mapi_id" THEN
        <<"m", "a", "p", "i", "I", "D">>
    ELSE IF f = "is_member_of_partial_attribute_set" THEN
        <<"i", "s", "M", "e", "m", "b", "e", "r", "O", "f", "P", "a", "r",
          "t", "i", "a", "l", "A", "t", "t", "r", "i", "b", "u", "t",
          "e", "S", "e", "t">>
    ELSE IF f = "system_flags" THEN
        <<"s", "y", "s", "t", "e", "m", "F", "l", "a", "g", "s">>
    ELSE
        <<"s", "c", "h", "e", "m", "a", "F", "l", "a", "g", "s", "E", "x">>

\* field_patterns[f]  ^\xa0<label>:\s*(.+)$  (MULTILINE | IGNORECASE) tried
\* at p.  The set of matches at p: empty or a singleton.
FieldMatchAt(b, f, p) ==
    LET lab == <<NBSP>> \o FieldLabel(f) \o <<":">>
    IN IF AtLineStart(b, p) /\ MatchAtNoCase(b, p, lab)
       THEN {[start |-> p, gstart |-> m.gstart, gend |-> m.gend, end |-> m.gend] :
                m \in TailMatch(b, p + Len(lab), 0)}
       ELSE {}

\* field_patterns[f].search(block): the leftmost match, or none ({}); starts
\* is LineStarts(b), the only positions where the pattern can begin.
FieldSearch(b, f, starts) ==
    LET ps == {p \in starts : FieldMatchAt(b, f, p) # {}}
    IN IF ps = {} THEN {} ELSE FieldMatchAt(b, f, MinOf(ps))

\* The fields whose value may continue on the following lines.
FlagFields == {"system_flags", "schema_flags_ex"}

DoubleIndent == <<NBSP, NBSP>>

FlagWord == <<"F", "L", "A", "G", "_">>

\* The loop over attr_block.split("\n") that appends continuation lines:
\* lines[i..] are still to be read, found is start_line_found, acc is
\* multiline_value.
RECURSIVE ContinuationScan(_, _, _, _, _)
ContinuationScan(lines, i, needle, found, acc) ==
    IF i > Len(lines) THEN acc
    ELSE IF Contains(lines[i], needle)
         THEN ContinuationScan(lines, i + 1, needle, TRUE, acc)
    ELSE IF ~found
         THEN ContinuationScan(lines, i + 1, needle, found, acc)
    ELSE IF /\ MatchAt(lines[i], 1, DoubleIndent)
            /\ (Contains(lines[i], FlagWord) \/ Strip(lines[i]) # <<>>)
         THEN LET continuation == Strip(RemoveAll(lines[i], DoubleIndent))
              IN ContinuationScan(lines, i + 1, needle, found,
                                  IF continuation # <<>>
                                  THEN acc \o <<SP>> \o continuation
                                  ELSE acc)
    ELSE acc

\* ExtractField looking for continuation lines after any field whose value
\* ends with "|".
ExtractFieldRepairAll(b, f, starts) ==
    LET ms == FieldSearch(b, f, starts)
    IN IF ms = {} THEN None
       ELSE
         LET m == CHOOSE x \in ms : TRUE
             value == Strip(Slice(b, m.gstart, m.gend))
             needle == Strip(Slice(b, m.start, m.end))
             repaired ==
                 IF EndsWith(value, <<"|">>)
                 THEN ContinuationScan(SplitLines(b), 1, needle, FALSE, value)
                 ELSE value
         IN Strip(NormalizeWhitespace(repaired))

\* The body of "for field_name, pattern in self.field_patterns.items()" for
\* one field: the value setattr stores, or None when the pattern finds nothing.
ExtractField(b, f, starts) ==
    LET ms == FieldSearch(b, f, starts)
    IN IF ms = {} THEN None
       ELSE
         LET m == CHOOSE x \in ms : TRUE
             value == Strip(Slice(b, m.gstart, m.gend))
             needle == Strip(Slice(b, m.start, m.end))
             repaired ==
                 IF f \in FlagFields /\ EndsWith(value, <<"|">>)
                 THEN ContinuationScan(SplitLines(b), 1, needle, FALSE, value)
                 ELSE value
         IN Strip(NormalizeWhitespace(repaired))

\* The size of the text window taken for the last attribute of a document.
BlockWindow == 2000

\* AttrBlock taking the fixed window for every attribute.
AttrBlockWindowed(t, ms, i) == Slice(t, ms[i].start, ms[i].start + BlockWindow)

\* AttrBlock running to the end of the text for every attribute.
AttrBlockToEnd(t, ms, i) == Slice(t, ms[i].start, Len(t) + 1)

\* attr_block of the i-th header match.
AttrBlock(t, ms, i) ==
    IF i + 1 <= Len(ms)
    THEN Slice(t, ms[i].start, ms[i + 1].start)
    ELSE Slice(t, ms[i].start, ms[i].start + BlockWindow)

\* BuildAttribute without the display-name fallback.
BuildAttributeNoFallback(t, ms, i, source_pdf) ==
    LET b == AttrBlock(t, ms, i)
        starts == LineStarts(b)
    IN [f \in AttributeFields |->
          IF f = "source_section" THEN ms[i].section
          ELSE IF f = "source_pdf" THEN source_pdf
          ELSE ExtractField(b, f, starts)]

\* The ADAttribute built for the i-th header match, display-name fallback
\* included.
BuildAttribute(t, ms, i, source_pdf) ==
    LET b == AttrBlock(t, ms, i)
        starts == LineStarts(b)
        attr_name == Strip(ms[i].label)
        raw == [f \in AttributeFields |->
                  IF f = "source_section" THEN ms[i].section
                  ELSE IF f = "source_pdf" THEN source_pdf
                  ELSE ExtractField(b, f, starts)]
    IN IF raw["ldap_display_name"] \in {None, <<>>} /\ attr_name # <<>>
       THEN [raw EXCEPT !["ldap_display_name"] = attr_name]
       ELSE raw

\* MSADAPDFParser.parse_attribute_blocks
parse_attribute_blocks(t, source_pdf) ==
    LET ms == attribute_header_finditer(t)
    IN [i \in 1..Len(ms) |-> BuildAttribute(t, ms, i, source_pdf)]

\* ------------------------------------------------------------------------
\* Reading a document
\* ------------------------------------------------------------------------
\* "\n".join(pages)
RECURSIVE JoinFrom(_, _)
JoinFrom(pages, i) ==
    IF i > Len(pages) THEN <<>>
    ELSE IF i = Len(pages) THEN pages[i]
    ELSE pages[i] \o <<NL>> \o JoinFrom(pages, i + 1)

\* extract_text_from_pdf letting the text read so far through.
extract_text_partial(doc) == JoinFrom(doc.pages, 1)

\* MSADAPDFParser.extract_text_from_pdf on an existing path: the pages' text
\* joined by newlines, or "" when opening or reading the document raises.
extract_text_from_pdf(doc) ==
    IF doc.status = "unreadable" THEN <<>> ELSE JoinFrom(doc.pages, 1)

\* MSADAPDFParser.parse_pdf_file
parse_pdf_file(doc) ==
    LET text == extract_text_from_pdf(doc)
    IN IF text = <<>> THEN <<>> ELSE parse_attribute_blocks(text, doc.name)

\* ------------------------------------------------------------------------
\* Consolidation (parse_multiple_pdfs)
\* ------------------------------------------------------------------------
\* Python truthiness of an Optional[str].
Truthy(v) == v # None /\ v # <<>>

\* KeyOf preferring the display name.
KeyOfNameFirst(attr) ==
    IF Truthy(attr["ldap_display_name"]) THEN attr["ldap_display_name"]
    ELSE attr["schema_id_guid"]

\* KeyOf knowing the uniqueKey only.
KeyOfGuidOnly(attr) == attr["schema_id_guid"]

\* key = attr.schema_id_guid or attr.ldap_display_name
KeyOf(attr) ==
    IF Truthy(attr["schema_id_guid"]) THEN attr["schema_id_guid"]
    ELSE attr["ldap_display_name"]

\* The key length at which a key is taken for a GUID.
GuidLen == 36

\* CleanKey lowercasing every key.
CleanKeyAlways(key) == Lower(key)

\* CleanKey toggling the letter case of a GUID-length key.
CleanKeySwapCase(key) ==
    IF Len(key) = GuidLen /\ Contains(key, <<"-">>)
    THEN SubSeq([i \in 1..Len(key) |->
                   IF \E j \in 1..Len(LowerCase) : LowerCase[j] = key[i]
                   THEN UpperCase[CHOOSE j \in 1..Len(LowerCase) : LowerCase[j] = key[i]]
                   ELSE LowerChar(key[i])], 1, Len(key))
    ELSE key

\* "Clean up GUID format if needed"
CleanKey(key) ==
    IF Len(key) = GuidLen /\ Contains(key, <<"-">>) THEN Lower(key) ELSE key

\* InsertAttribute keeping the entry a key already has.
InsertAttributeKeepFirst(table, attr) ==
    IF Truthy(KeyOf(attr))
    THEN table @@ (CleanKey(KeyOf(attr)) :> attr)
    ELSE table

\* InsertAttribute forgetting the other keys.
InsertAttributeAlone(table, attr) ==
    IF Truthy(KeyOf(attr))
    THEN (CleanKey(KeyOf(attr)) :> attr)
    ELSE table

\* The body of "for attr in attributes" for one attr.
InsertAttribute(table, attr) ==
    IF Truthy(KeyOf(attr))
    THEN (CleanKey(KeyOf(attr)) :> attr) @@ table
    ELSE table

\* The loop "for attr in attributes" from the i-th attr on.
RECURSIVE InsertFrom(_, _, _)
InsertFrom(table, attrs, i) ==
    IF i > Len(attrs) THEN table
    ELSE InsertFrom(InsertAttribute(table, attrs[i]), attrs, i + 1)

\* The empty dict.
EmptyDict == [k \in {} |-> None]

\* ------------------------------------------------------------------------
\* Export
\* ------------------------------------------------------------------------
JsonString(s) == [type |-> "string", text |-> s]

JsonNull == [type |-> "null", text |-> <<"n", "u", "l", "l">>]

JsonTrue == [type |-> "boolean", text |-> <<"t", "r", "u", "e">>]

JsonFalse == [type |-> "boolean", text |-> <<"f", "a", "l", "s", "e">>]

\* int(value) succeeds: an optional sign, then digits, single underscores
\* allowed between digits (white space around the literal is ignored).
IsIntLiteral(v) ==
    LET s == Strip(v)
        d == IF Len(s) > 0 /\ s[1] \in {"+", "-"} THEN Slice(s, 2, Len(s) + 1) ELSE s
    IN /\ Len(d) > 0
       /\ \A i \in 1..Len(d) : d[i] \in Digits \cup {"_"}
       /\ d[1] # "_" /\ d[Len(d)] # "_"
       /\ \A i \in 1..(Len(d) - 1) : ~(d[i] = "_" /\ d[i + 1] = "_")

\* json.dump(int(value)): the decimal digits without sign "+", underscores or
\* leading zeros.
IntText(v) ==
    LET s == Strip(v)
        neg == s[1] = "-"
        d == SelectSeq(IF s[1] \in {"+", "-"} THEN Slice(s, 2, Len(s) + 1) ELSE s,
                       LAMBDA c : c # "_")
        nz == {i \in 1..Len(d) : d[i] # "0"}
    IN IF nz = {} THEN <<"0">>
       ELSE (IF neg THEN <<"-">> ELSE <<>>) \o Slice(d, MinOf(nz), Len(d) + 1)

JsonNumber(v) == [type |-> "number", text |-> IntText(v)]

\* The keys of field_mapping with the attribute each reads.
EnhancedSource(ef) ==
    CASE ef = "cn" -> "cn"
      [] ef = "attributeId" -> "attribute_id"
      [] ef = "attributeSyntax" -> "attribute_syntax"
      [] ef = "omSyntax" -> "om_syntax"
      [] ef = "isSingleValued" -> "is_single_valued"
      [] ef = "systemOnly" -> "system_only"
      [] ef = "searchFlags" -> "search_flags"
      [] ef = "rangeLower" -> "range_lower"
      [] ef = "rangeUpper" -> "range_upper"
      [] ef = "attributeSecurityGuid" -> "attribute_security_guid"
      [] ef = "mapiID" -> "mapi_id"
      [] ef = "isMemberOfPartialAttributeSet" -> "is_member_of_partial_attribute_set"
      [] ef = "systemFlags" -> "system_flags"
      [] ef = "schemaFlagsEx" -> "schema_flags_ex"

MappedFields ==
    {"cn", "attributeId", "attributeSyntax", "omSyntax", "isSingleValued",
     "systemOnly", "searchFlags", "rangeLower", "rangeUpper",
     "attributeSecurityGuid", "mapiID", "isMemberOfPartialAttributeSet",
     "systemFlags", "schemaFlagsEx"}

BooleanFields == {"isSingleValued", "systemOnly", "isMemberOfPartialAttributeSet"}

IntegerFields == {"omSyntax", "rangeLower", "rangeUpper", "mapiID"}

\* EnhancedValue reading the boolean literals in any letter case.
EnhancedValueLoose(ef, value) ==
    IF ef \in BooleanFields
    THEN IF Lower(value) = <<"t", "r", "u", "e">> THEN JsonTrue
         ELSE IF Lower(value) = <<"f", "a", "l", "s", "e">> THEN JsonFalse
         ELSE JsonString(value)
    ELSE IF ef \in IntegerFields
    THEN IF IsIntLiteral(value) THEN JsonNumber(value) ELSE JsonString(value)
    ELSE JsonString(value)

\* EnhancedValue writing an integer literal as it was captured.
EnhancedValueVerbatim(ef, value) ==
    IF ef \in BooleanFields
    THEN IF value = <<"T", "R", "U", "E">> THEN JsonTrue
         ELSE IF value = <<"F", "A", "L", "S", "E">> THEN JsonFalse
         ELSE JsonString(value)
    ELSE IF ef \in IntegerFields
    THEN IF IsIntLiteral(value) THEN [type |-> "number", text |-> value]
         ELSE JsonString(value)
    ELSE JsonString(value)

\* The value export_to_enhanced_json stores for a field_mapping entry that
\* passed the "is not None and != ''" test.
EnhancedValue(ef, value) ==
    IF ef \in BooleanFields
    THEN IF value = <<"T", "R", "U", "E">> THEN JsonTrue
         ELSE IF value = <<"F", "A", "L", "S", "E">> THEN JsonFalse
         ELSE JsonString(value)
    ELSE IF ef \in IntegerFields
    THEN IF IsIntLiteral(value) THEN JsonNumber(value) ELSE JsonString(value)
    ELSE JsonString(value)

\* EnhancedEntry testing "is not None" only.
EnhancedEntryKeepEmpty(attr) ==
    LET present == {ef \in MappedFields : attr[EnhancedSource(ef)] # None}
    IN [ef \in present \cup {"ldapDisplayName"} |->
          IF ef = "ldapDisplayName"
          THEN IF attr["ldap_display_name"] = None THEN JsonNull
               ELSE JsonString(attr["ldap_display_name"])
          ELSE EnhancedValue(ef, attr[EnhancedSource(ef)])]

\* enhanced_entry for one attribute.
EnhancedEntry(attr) ==
    LET present == {ef \in MappedFields :
                      attr[EnhancedSource(ef)] # None /\ attr[EnhancedSource(ef)] # <<>>}
    IN [ef \in present \cup {"ldapDisplayName"} |->
          IF ef = "ldapDisplayName"
          THEN IF attr["ldap_display_name"] = None THEN JsonNull
               ELSE JsonString(attr["ldap_display_name"])
          ELSE EnhancedValue(ef, attr[EnhancedSource(ef)])]

\* EnhancedSchema leaving out the entries that have a display name only.
EnhancedSchemaSkipsBare(attributes) ==
    LET full == {guid \in DOMAIN attributes :
                   DOMAIN EnhancedEntry(attributes[guid]) # {"ldapDisplayName"}}
    IN [guid \in full |-> EnhancedEntry(attributes[guid])]

\* The mapping export_to_enhanced_json writes to output_path.
EnhancedSchema(attributes) ==
    [guid \in DOMAIN attributes |-> EnhancedEntry(attributes[guid])]

\* cleaned_dict of export_to_json for one attribute.
CleanedDict(attr) ==
    LET kept == {f \in PatternFields : attr[f] # None}
    IN [f \in kept |-> attr[f]]

\* raw_data of export_to_json.
RawData(attributes) ==
    [key \in DOMAIN attributes |-> CleanedDict(attributes[key])]

\* ------------------------------------------------------------------------
\* Input documents
\* ------------------------------------------------------------------------
\* A heading line "<section> Attribute <label>".
Header(section, label) == section \o <<SP>> \o AttributeWord \o <<SP>> \o label

\* A field line "\xa0<label>: <value>".
FieldLine(f, value) == <<NBSP>> \o FieldLabel(f) \o <<":", SP>> \o value

\* A 36-character identifier in the 8-4-4-4-12 grouping, told apart by its
\* first character.
GuidText(c) ==
    [i \in 1..GuidLen |-> IF i \in {9, 14, 19, 24} THEN "-" ELSE IF i = 1 THEN c ELSE "0"]

\* Heading labels of 36 characters with a hyphen, 36 without, 35 with.
LongLabelHyphen == [i \in 1..GuidLen |-> IF i = 3 THEN "-" ELSE "X"]

LongLabelPlain == [i \in 1..GuidLen |-> "X"]

ShortLabelHyphen == [i \in 1..(GuidLen - 1) |-> IF i = 3 THEN "-" ELSE "X"]

PageUpperGuid ==
    JoinFrom(<<Header(<<"1", ".", "1">>, <<"a", "B">>),
               FieldLine("schema_id_guid", GuidText("B")),
               FieldLine("cn", <<"p">>)>>, 1)

PageLowerGuid ==
    JoinFrom(<<Header(<<"1", ".", "1">>, <<"a", "B">>),
               FieldLine("schema_id_guid", GuidText("b")),
               FieldLine("cn", <<"q">>)>>, 1)

PageNameOnly == Header(<<"1", ".", "2">>, <<"a", "B">>)

PageNameCn ==
    JoinFrom(<<Header(<<"3", ".", "1">>, <<"a", "B">>), FieldLine("cn", <<"r">>)>>, 1)

PageShortGuid ==
    JoinFrom(<<Header(<<"3", ".", "2">>, <<"a", "B">>),
               FieldLine("schema_id_guid", <<"B", "-", "1">>)>>, 1)

PageOtherGuid ==
    JoinFrom(<<Header(<<"4", ".", "1">>, <<"z">>),
               FieldLine("schema_id_guid", GuidText("B")),
               FieldLine("cn", <<"s">>)>>, 1)

PageOtherGuidAgain ==
    JoinFrom(<<Header(<<"4", ".", "2">>, <<"z">>),
               FieldLine("schema_id_guid", GuidText("b")),
               FieldLine("cn", <<"t">>)>>, 1)

\* A heading whose label is white space only, at the end of the document.
PageBlankLabel == <<"4", ".", "3", SP>> \o AttributeWord \o <<SP, SP>>

PagePreamble == <<"i", "n", "t", "r", "o">>

PageThirdGuid ==
    JoinFrom(<<Header(<<"6", ".", "1">>, <<"y">>),
               FieldLine("schema_id_guid", GuidText("c"))>>, 1)

\* A block that ends on a label line with only a space after the colon.
PageEmptyGuid ==
    JoinFrom(<<Header(<<"5", ".", "1">>, <<"w">>),
               <<NBSP>> \o FieldLabel("schema_id_guid") \o <<":", SP>>>>, 1)

\* A block with boolean and integer fields in the spellings the export reads.
PageTypedFields ==
    JoinFrom(<<Header(<<"7", ".", "1">>, <<"k">>),
               FieldLine("is_single_valued", <<"T", "R", "U", "E">>),
               FieldLine("system_only", <<"M", "a", "y", "b", "e">>),
               FieldLine("is_member_of_partial_attribute_set", <<"F", "A", "L", "S", "E">>),
               FieldLine("cn", <<"T", "R", "U", "E">>),
               FieldLine("attribute_id", <<"6", "4">>),
               FieldLine("om_syntax", <<"6", "4">>),
               FieldLine("range_lower", <<"0", "0", "7">>),
               FieldLine("range_upper", <<"a", "b", "c">>),
               FieldLine("mapi_id", <<"-", "7">>)>>, 1)

\* A block with a lowercase boolean literal, an integer field that is no
\* integer literal, and a cn label line with only a space after the colon.
PageLooseFields ==
    JoinFrom(<<Header(<<"7", ".", "2">>, <<"j">>),
               FieldLine("is_single_valued", <<"t", "r", "u", "e">>),
               FieldLine("om_syntax", <<"6", SP, "4">>),
               <<NBSP>> \o FieldLabel("cn") \o <<":", SP>>>>, 1)

\* The documents a run may be given: status "ok" (readable), "unreadable"
\* (the path exists, reading raises) or "missing" (the path does not exist).
DocLibrary ==
    {[name |-> <<"a">>, status |-> "ok", pages |-> <<PageUpperGuid>>],
     [name |-> <<"b">>, status |-> "ok", pages |-> <<PageLowerGuid, PageNameOnly>>],
     [name |-> <<"c">>, status |-> "ok",
      pages |-> <<Header(<<"2", ".", "1">>, LongLabelHyphen),
                  Header(<<"2", ".", "2">>, LongLabelPlain),
                  Header(<<"2", ".", "3">>, ShortLabelHyphen)>>],
     [name |-> <<"d">>, status |-> "ok",
      pages |-> <<PagePreamble, PageNameCn, PageShortGuid>>],
     [name |-> <<"e">>, status |-> "ok",
      pages |-> <<PageOtherGuid, PageOtherGuidAgain, PageBlankLabel>>],
     [name |-> <<"f">>, status |-> "ok", pages |-> <<PagePreamble, PageThirdGuid>>],
     [name |-> <<"g">>, status |-> "ok", pages |-> <<>>],
     [name |-> <<"h">>, status |-> "ok", pages |-> <<PageEmptyGuid, PageNameOnly>>],
     [name |-> <<"k">>, status |-> "ok", pages |-> <<PageTypedFields, PageLooseFields>>],
     [name |-> <<"u">>, status |-> "unreadable", pages |-> <<PageUpperGuid>>],
     [name |-> <<"m">>, status |-> "missing", pages |-> <<>>]}

\* The longest pdf_paths list a run is given.
MaxDocs == 2

Callers == {"main", "build_schema_from_pdfs"}

\* ------------------------------------------------------------------------
\* The run: a caller, parse_multiple_pdfs, an export
\* ------------------------------------------------------------------------
VARIABLES
    pdf_paths,        \* the documents given, in order
    caller,           \* which entry point runs
    pc,               \* "start", "parse", "parsed", "done", "exit1"
    index,            \* the position of "for pdf_path in pdf_paths"
    all_attributes,   \* the consolidated table
    stderr,           \* what was reported, in order
    enhanced_schema,  \* the persisted schema file's content
    raw_data,         \* the raw export's content
    outputs,          \* which exports were written
    text,             \* the text given to parse_attribute_blocks
    tpc,              \* "idle", "find", "blocks", "returned"
    attribute_matches, \* the heading anchors found in text
    block_index,      \* the position of "for i, match in enumerate(...)"
    blocks,           \* the attr_block of each iteration so far
    attributes,       \* the list parse_attribute_blocks builds
    entry,            \* "subset_analysis" or "intersect_files"
    include_all,      \* the files a key must be in all of
    include_any,      \* the files a key must be in one of
    exclude,          \* the files a key must be in none of
    spc,              \* "idle", "start", "analysis", "read", "done", "exit1"
    read_index,       \* the position of "for file_path in all_files"
    file_data,        \* file name -> set of keys
    result_set,       \* the keys subset_analysis puts out
    json_file,        \* the schema file load_schema_mappings is given
    mappings,         \* what load_schema_mappings returns
    lpc,              \* "idle", "start", "loaded", "exit1"
    guid_to_name,     \* SchemaLookup.guid_to_name, the items in dict order
    _name_to_guid,    \* SchemaLookup._name_to_guid: not built, or the items
    kpc,              \* "idle" (no SchemaLookup yet) or "ready"
    call,             \* the last call made on the SchemaLookup
    result            \* what that call returned or raised

runvars == <<pdf_paths, caller, pc, index, all_attributes, stderr, enhanced_schema,
             raw_data, outputs>>

textvars == <<text, tpc, attribute_matches, block_index, blocks, attributes>>

setvars == <<entry, include_all, include_any, exclude, spc, read_index, file_data,
             result_set>>

loadvars == <<json_file, mappings, lpc>>

lookupvars == <<guid_to_name, _name_to_guid, kpc, call, result>>

vars == <<runvars, textvars, setvars, loadvars, lookupvars>>

\* No parse_attribute_blocks call is being followed step by step.
TextIdle ==
    /\ text = <<>>
    /\ tpc = "idle"
    /\ attribute_matches = <<>>
    /\ block_index = 1
    /\ blocks = <<>>
    /\ attributes = <<>>

\* No subset_analysis call is being followed.
SetIdle ==
    /\ entry = "subset_analysis"
    /\ include_all = <<>>
    /\ include_any = <<>>
    /\ exclude = <<>>
    /\ spc = "idle"
    /\ read_index = 1
    /\ file_data = EmptyDict
    /\ result_set = {}

\* No load_schema_mappings call is being followed.
LoadIdle ==
    /\ json_file = [status |-> "missing", data |-> EmptyDict]
    /\ mappings = EmptyDict
    /\ lpc = "idle"

\* No SchemaLookup has been made.
LookupIdle ==
    /\ guid_to_name = <<>>
    /\ _name_to_guid = [built |-> FALSE, items |-> <<>>]
    /\ kpc = "idle"
    /\ call = [op |-> "none", arg |-> <<>>]
    /\ result = [kind |-> "none", value |-> <<>>]

\* No consolidation run is being followed.
RunIdle ==
    /\ pdf_paths = <<>>
    /\ caller = "main"
    /\ pc = "start"
    /\ index = 1
    /\ all_attributes = EmptyDict
    /\ stderr = <<>>
    /\ enhanced_schema = EmptyDict
    /\ raw_data = EmptyDict
    /\ outputs = {}

DocLists == UNION {[1..n -> DocLibrary] : n \in 0..MaxDocs}

Init ==
    /\ pdf_paths \in DocLists
    /\ caller \in Callers
    /\ pc = "start"
    /\ index = 1
    /\ all_attributes = EmptyDict
    /\ stderr = <<>>
    /\ enhanced_schema = EmptyDict
    /\ raw_data = EmptyDict
    /\ outputs = {}
    /\ TextIdle
    /\ SetIdle
    /\ LoadIdle
    /\ LookupIdle

\* MissingFiles finding nothing missing.
MissingFilesNone(paths) == <<>>

\* missing_files of build_schema_from_pdfs
MissingFiles(paths) == SelectSeq(paths, LAMBDA d : d.status = "missing")

\* build_schema_from_pdfs up to its call of parse_multiple_pdfs: any missing
\* file is reported and the process exits with status 1.
BuildSchemaStart ==
    /\ pc = "start"
    /\ caller = "build_schema_from_pdfs"
    /\ IF MissingFiles(pdf_paths) # <<>>
       THEN /\ stderr' = stderr \o
                 [i \in 1..Len(MissingFiles(pdf_paths)) |->
                    [kind |-> "not_found", doc |-> MissingFiles(pdf_paths)[i].name]]
            /\ pc' = "exit1"
       ELSE /\ stderr' = stderr
            /\ pc' = "parse"
    /\ UNCHANGED <<pdf_paths, caller, index, all_attributes, enhanced_schema,
                   raw_data, outputs>>
    /\ UNCHANGED <<textvars, setvars, loadvars, lookupvars>>

\* main() of the script up to its call of parse_multiple_pdfs.
MainStart ==
    /\ pc = "start"
    /\ caller = "main"
    /\ pc' = "parse"
    /\ UNCHANGED <<pdf_paths, caller, index, all_attributes, stderr,
                   enhanced_schema, raw_data, outputs>>
    /\ UNCHANGED <<textvars, setvars, loadvars, lookupvars>>

\* What one iteration of "for pdf_path in pdf_paths" prints to stderr.
Reports(doc) ==
    IF doc.status = "missing" THEN <<[kind |-> "warning_not_found", doc |-> doc.name]>>
    ELSE IF doc.status = "unreadable" THEN <<[kind |-> "error_reading", doc |-> doc.name]>>
    ELSE <<>>

\* What one iteration of "for pdf_path in pdf_paths" makes of the table.
ConsolidateDoc(table, doc) ==
    IF doc.status = "missing" THEN table
    ELSE InsertFrom(table, parse_pdf_file(doc), 1)

\* One iteration of the loop of parse_multiple_pdfs.
ParseNextPdf ==
    /\ pc = "parse"
    /\ index <= Len(pdf_paths)
    /\ all_attributes' = ConsolidateDoc(all_attributes, pdf_paths[index])
    /\ stderr' = stderr \o Reports(pdf_paths[index])
    /\ index' = index + 1
    /\ UNCHANGED <<pdf_paths, caller, pc, enhanced_schema, raw_data, outputs>>
    /\ UNCHANGED <<textvars, setvars, loadvars, lookupvars>>

\* return all_attributes
ParseReturn ==
    /\ pc = "parse"
    /\ index > Len(pdf_paths)
    /\ pc' = "parsed"
    /\ UNCHANGED <<pdf_paths, caller, index, all_attributes, stderr,
                   enhanced_schema, raw_data, outputs>>
    /\ UNCHANGED <<textvars, setvars, loadvars, lookupvars>>

\* ExportEnhanced writing each integer it reads back into the record.
ExportEnhancedInPlace ==
    /\ pc = "parsed"
    /\ caller = "build_schema_from_pdfs"
    /\ enhanced_schema' = EnhancedSchema(all_attributes)
    /\ all_attributes' =
         [guid \in DOMAIN all_attributes |->
            [f \in AttributeFields |->
               LET value == all_attributes[guid][f]
               IN IF /\ \E ef \in IntegerFields : EnhancedSource(ef) = f
                     /\ value # None /\ value # <<>>
                     /\ IsIntLiteral(value)
                  THEN IntText(value)
                  ELSE value]]
    /\ outputs' = outputs \cup {"enhanced"}
    /\ pc' = "done"
    /\ UNCHANGED <<pdf_paths, caller, index, stderr, raw_data>>
    /\ UNCHANGED <<textvars, setvars, loadvars, lookupvars>>

\* build_schema_from_pdfs: parser.export_to_enhanced_json(attributes, output_file)
ExportEnhanced ==
    /\ pc = "parsed"
    /\ caller = "build_schema_from_pdfs"
    /\ enhanced_schema' = EnhancedSchema(all_attributes)
    /\ outputs' = outputs \cup {"enhanced"}
    /\ pc' = "done"
    /\ UNCHANGED <<pdf_paths, caller, index, all_attributes, stderr, raw_data>>
    /\ UNCHANGED <<textvars, setvars, loadvars, lookupvars>>

\* main(): pdf_parser.export_to_json(attributes, args.output)
ExportJson ==
    /\ pc = "parsed"
    /\ caller = "main"
    /\ raw_data' = RawData(all_attributes)
    /\ outputs' = outputs \cup {"raw"}
    /\ pc' = "done"
    /\ UNCHANGED <<pdf_paths, caller, index, all_attributes, stderr,
                   enhanced_schema>>
    /\ UNCHANGED <<textvars, setvars, loadvars, lookupvars>>

Next ==
    \/ BuildSchemaStart
    \/ MainStart
    \/ ParseNextPdf
    \/ ParseReturn
    \/ ExportEnhanced
    \/ ExportJson

Spec == Init /\ [][Next]_vars

\* ------------------------------------------------------------------------
\* One parse_attribute_blocks call, block by block
\* ------------------------------------------------------------------------
\* The lines a text is made of.
LineLibrary ==
    {Header(<<"1", ".", "1">>, <<"x">>),
     <<"2", ".", "2", SP>> \o AttributeWord \o <<SP, SP>>,
     <<"3", ".", "3">>,
     AttributeWord,
     FieldLine("cn", <<"v">>),
     <<NBSP>> \o FieldLabel("cn") \o <<":">>,
     <<NBSP, "C", "N", ":", "\t", "w", SP, SP, "w", SP>>,
     <<NBSP>> \o FieldLabel("ldap_display_name") \o <<":", SP>>,
     FieldLine("ldap_display_name", <<"n">>),
     <<"i", "n", "t", "r", "o">>,
     <<>>}

\* The most lines a text has before its optional padding.
MaxLines == 3

\* A line longer than the last attribute's window.
Padding == [i \in 1..BlockWindow |-> "x"]

Texts ==
    {JoinFrom(ls, 1) \o tail :
       ls \in UNION {[1..n -> LineLibrary] : n \in 0..MaxLines},
       tail \in {<<>>, <<NL>> \o Padding}}

\* source_pdf of the call.
SourceName == <<"d">>

TextInit ==
    /\ text \in Texts
    /\ tpc = "find"
    /\ attribute_matches = <<>>
    /\ block_index = 1
    /\ blocks = <<>>
    /\ attributes = <<>>
    /\ pdf_paths = <<>>
    /\ caller = "main"
    /\ pc = "start"
    /\ index = 1
    /\ all_attributes = EmptyDict
    /\ stderr = <<>>
    /\ enhanced_schema = EmptyDict
    /\ raw_data = EmptyDict
    /\ outputs = {}
    /\ SetIdle
    /\ LoadIdle
    /\ LookupIdle

\* attribute_matches = list(self.attribute_header_pattern.finditer(text))
FindHeaders ==
    /\ tpc = "find"
    /\ attribute_matches' = attribute_header_finditer(text)
    /\ tpc' = "blocks"
    /\ UNCHANGED <<text, block_index, blocks, attributes>>
    /\ UNCHANGED <<runvars, setvars, loadvars, lookupvars>>

\* One iteration of "for i, match in enumerate(attribute_matches)".
ExtractBlock ==
    /\ tpc = "blocks"
    /\ block_index <= Len(attribute_matches)
    /\ blocks' = Append(blocks, AttrBlock(text, attribute_matches, block_index))
    /\ attributes' =
         Append(attributes, BuildAttribute(text, attribute_matches, block_index, SourceName))
    /\ block_index' = block_index + 1
    /\ UNCHANGED <<text, tpc, attribute_matches>>
    /\ UNCHANGED <<runvars, setvars, loadvars, lookupvars>>

\* return attributes
ReturnAttributes ==
    /\ tpc = "blocks"
    /\ block_index > Len(attribute_matches)
    /\ tpc' = "returned"
    /\ UNCHANGED <<text, attribute_matches, block_index, blocks, attributes>>
    /\ UNCHANGED <<runvars, setvars, loadvars, lookupvars>>

TextNext ==
    \/ FindHeaders
    \/ ExtractBlock
    \/ ReturnAttributes

SpecText == TextInit /\ [][TextNext]_vars

\* ------------------------------------------------------------------------
\* One parse_attribute_blocks call on a block with flag fields
\* ------------------------------------------------------------------------
\* The lines that may follow the heading of a block with flag fields.
FlagLineLibrary ==
    {FieldLine("system_flags", <<"A", SP, "|">>),
     <<NBSP, NBSP, "B", SP, "|">>,
     <<NBSP, NBSP, "C", NBSP, NBSP, "D", "\t", SP, "E">>,
     <<NBSP, NBSP>>,
     <<"x">>,
     <<"s", "e", "e", SP>> \o FieldLabel("system_flags") \o <<":", SP, "A", SP, "|">>,
     FieldLine("schema_flags_ex", <<"F", "L", "A", "G", "_", "E", SP, SP, "|">>)}

\* The most lines a flag text has after its heading.
MaxFlagLines == 4

FlagTexts ==
    {JoinFrom(<<Header(<<"1", ".", "1">>, <<"x">>)>> \o ls, 1) :
       ls \in UNION {[1..n -> FlagLineLibrary] : n \in 0..MaxFlagLines}}

FlagInit ==
    /\ text \in FlagTexts
    /\ tpc = "find"
    /\ attribute_matches = <<>>
    /\ block_index = 1
    /\ blocks = <<>>
    /\ attributes = <<>>
    /\ pdf_paths = <<>>
    /\ caller = "main"
    /\ pc = "start"
    /\ index = 1
    /\ all_attributes = EmptyDict
    /\ stderr = <<>>
    /\ enhanced_schema = EmptyDict
    /\ raw_data = EmptyDict
    /\ outputs = {}
    /\ SetIdle
    /\ LoadIdle
    /\ LookupIdle

SpecFlags == FlagInit /\ [][TextNext]_vars

\* ------------------------------------------------------------------------
\* One parse_attribute_blocks call on a block with fields followed by
\* double-indent lines
\* ------------------------------------------------------------------------
\* The lines that may follow the heading: a field that is no flag field with
\* a value ending in "|", a flag field without and with one, a double-indent
\* line, a label line without a value.
RepairLineLibrary ==
    {FieldLine("search_flags", <<"A", SP, "|">>),
     FieldLine("system_flags", <<"A">>),
     FieldLine("system_flags", <<"A", SP, "|">>),
     <<NBSP, NBSP, "B", SP, "|">>,
     <<NBSP>> \o FieldLabel("search_flags") \o <<":", SP>>}

\* The most lines such a text has after its heading.
MaxRepairLines == 4

RepairTexts ==
    {JoinFrom(<<Header(<<"1", ".", "1">>, <<"x">>)>> \o ls, 1) :
       ls \in UNION {[1..n -> RepairLineLibrary] : n \in 0..MaxRepairLines}}

RepairInit ==
    /\ text \in RepairTexts
    /\ tpc = "find"
    /\ attribute_matches = <<>>
    /\ block_index = 1
    /\ blocks = <<>>
    /\ attributes = <<>>
    /\ RunIdle
    /\ SetIdle
    /\ LoadIdle
    /\ LookupIdle

SpecRepair == RepairInit /\ [][TextNext]_vars

\* ------------------------------------------------------------------------
\* Set algebra over key files (subset_analysis, intersect_files)
\* ------------------------------------------------------------------------
\* normalize_guid
normalize_guid(guid) ==
    LET g == Strip(guid)
    IN IF MatchAt(g, 1, <<"{">>) /\ EndsWith(g, <<"}">>)
       THEN Slice(g, 2, Len(g))
       ELSE g

\* guids of one file: the stripped lines that are neither empty nor comments,
\* normalized.
ReadGuids(file) ==
    {normalize_guid(Strip(file.lines[i])) :
       i \in {j \in 1..Len(file.lines) :
                /\ Strip(file.lines[j]) # <<>>
                /\ ~MatchAt(Strip(file.lines[j]), 1, <<"#">>)}}

\* The key files a call may be given: path = <<directory, file name>>.
FileLibrary ==
    {[path |-> <<"p", "x">>, status |-> "ok",
      lines |-> <<<<"{", "a", "}">>, <<SP, "b", SP, "\t">>, <<"#", "c">>, <<>>, <<"c">>>>],
     [path |-> <<"q", "x">>, status |-> "ok", lines |-> <<<<"a">>>>],
     [path |-> <<"p", "y">>, status |-> "ok",
      lines |-> <<<<"b">>, <<SP, "{", "c", "}">>, <<"d">>, <<SP, "#", "a">>>>],
     [path |-> <<"p", "m">>, status |-> "missing", lines |-> <<>>]}

\* The most files one call is given, over its three lists.
MaxFiles == 3

FileLists == UNION {[1..n -> FileLibrary] : n \in 0..MaxFiles}

\* file_path.name
BaseName(file) == file.path[2]

SetInit ==
    /\ entry \in {"subset_analysis", "intersect_files"}
    /\ include_all \in FileLists
    /\ include_any \in FileLists
    /\ exclude \in FileLists
    /\ Len(include_all) + Len(include_any) + Len(exclude) <= MaxFiles
    /\ entry = "intersect_files" => (include_any = <<>> /\ exclude = <<>>)
    /\ spc = "start"
    /\ read_index = 1
    /\ file_data = EmptyDict
    /\ result_set = {}
    /\ RunIdle
    /\ TextIdle
    /\ LoadIdle
    /\ LookupIdle

\* include_all + include_any + exclude
AllFiles == include_all \o include_any \o exclude

\* intersect_files: fewer than two files is an error, otherwise
\* subset_analysis is called with include_all = file_paths.
IntersectFiles ==
    /\ spc = "start"
    /\ entry = "intersect_files"
    /\ IF Len(include_all) < 2
       THEN /\ stderr' = Append(stderr, [kind |-> "need_two_files", doc |-> <<>>])
            /\ spc' = "exit1"
       ELSE /\ stderr' = stderr
            /\ spc' = "analysis"
    /\ UNCHANGED <<entry, include_all, include_any, exclude, read_index, file_data,
                   result_set>>
    /\ UNCHANGED <<pdf_paths, caller, pc, index, all_attributes, enhanced_schema,
                   raw_data, outputs>>
    /\ UNCHANGED <<textvars, loadvars, lookupvars>>

\* subset_analysis up to its reading loop: no file at all is an error.
SubsetEnter ==
    /\ \/ spc = "analysis"
       \/ spc = "start" /\ entry = "subset_analysis"
    /\ IF Len(AllFiles) < 1
       THEN /\ stderr' = Append(stderr, [kind |-> "need_one_file", doc |-> <<>>])
            /\ spc' = "exit1"
       ELSE /\ stderr' = stderr
            /\ spc' = "read"
    /\ UNCHANGED <<entry, include_all, include_any, exclude, read_index, file_data,
                   result_set>>
    /\ UNCHANGED <<pdf_paths, caller, pc, index, all_attributes, enhanced_schema,
                   raw_data, outputs>>
    /\ UNCHANGED <<textvars, loadvars, lookupvars>>

\* One iteration of "for file_path in all_files": the file's guids are
\* stored under its base name, or the run ends when the file is not found.
ReadFile ==
    /\ spc = "read"
    /\ read_index <= Len(AllFiles)
    /\ LET file == AllFiles[read_index]
       IN IF file.status = "missing"
          THEN /\ stderr' = Append(stderr, [kind |-> "file_not_found", doc |-> file.path])
               /\ spc' = "exit1"
               /\ UNCHANGED <<read_index, file_data>>
          ELSE /\ file_data' = (BaseName(file) :> ReadGuids(file)) @@ file_data
               /\ read_index' = read_index + 1
               /\ UNCHANGED <<stderr, spc>>
    /\ UNCHANGED <<entry, include_all, include_any, exclude, result_set>>
    /\ UNCHANGED <<pdf_paths, caller, pc, index, all_attributes, enhanced_schema,
                   raw_data, outputs>>
    /\ UNCHANGED <<textvars, loadvars, lookupvars>>

\* The intersection of file_data over files[i..], started from acc.
RECURSIVE IntersectFrom(_, _, _, _)
IntersectFrom(data, files, i, acc) ==
    IF i > Len(files) THEN acc
    ELSE IntersectFrom(data, files, i + 1, acc \cap data[BaseName(files[i])])

\* The union of file_data over files.
UnionOf(data, files) == UNION {data[BaseName(files[i])] : i \in 1..Len(files)}

\* include_set of subset_analysis
IncludeSet(data, all, any) ==
    LET from_all == IF all # <<>>
                    THEN IntersectFrom(data, all, 2, data[BaseName(all[1])])
                    ELSE {}
    IN IF any # <<>>
       THEN IF all # <<>> THEN from_all \cap UnionOf(data, any) ELSE UnionOf(data, any)
       ELSE from_all

\* subset_analysis after its reading loop: result_set = include_set - exclude_set
ComputeResult ==
    /\ spc = "read"
    /\ read_index > Len(AllFiles)
    /\ result_set' =
         IncludeSet(file_data, include_all, include_any) \ UnionOf(file_data, exclude)
    /\ spc' = "done"
    /\ UNCHANGED <<entry, include_all, include_any, exclude, read_index, file_data>>
    /\ UNCHANGED <<runvars, textvars, loadvars, lookupvars>>

SetNext ==
    \/ IntersectFiles
    \/ SubsetEnter
    \/ ReadFile
    \/ ComputeResult

SpecSets == SetInit /\ [][SetNext]_vars

\* ------------------------------------------------------------------------
\* Loading the persisted schema (load_schema_mappings)
\* ------------------------------------------------------------------------
\* f"Unknown-{guid}"
UnknownName(guid) == <<"U", "n", "k", "n", "o", "w", "n", "-">> \o guid

\* load_schema_mappings never looking at cn.
load_schema_mappings_no_cn(enhanced_data) ==
    [guid \in DOMAIN enhanced_data |->
       IF "ldapDisplayName" \in DOMAIN enhanced_data[guid]
       THEN enhanced_data[guid]["ldapDisplayName"]
       ELSE JsonString(UnknownName(guid))]

\* The mappings load_schema_mappings builds from the loaded JSON object:
\* attr_data.get("ldapDisplayName", attr_data.get("cn", f"Unknown-{guid}"))
load_schema_mappings(enhanced_data) ==
    [guid \in DOMAIN enhanced_data |->
       IF "ldapDisplayName" \in DOMAIN enhanced_data[guid]
       THEN enhanced_data[guid]["ldapDisplayName"]
       ELSE IF "cn" \in DOMAIN enhanced_data[guid]
       THEN enhanced_data[guid]["cn"]
       ELSE JsonString(UnknownName(guid))]

\* The keys a schema file may hold.
SchemaKeys == {GuidText("a"), GuidText("b"), <<"k">>, <<"j">>}

\* The entries a schema file may hold: with both names, with each one alone,
\* with neither, and with no field at all.
SchemaEntries ==
    {("ldapDisplayName" :> JsonString(<<"n">>)) @@ ("cn" :> JsonString(<<"c">>))
        @@ ("systemOnly" :> JsonTrue),
     ("ldapDisplayName" :> JsonString(<<"n">>)),
     ("cn" :> JsonString(<<"c">>)),
     ("omSyntax" :> JsonNumber(<<"6", "4">>)),
     EmptyDict}

\* The most entries a schema file has.
MaxEntries == 3

\* The schema files a call may be given: a JSON object of entries, a path
\* that does not exist, or a file that is not JSON.
SchemaFiles ==
    {[status |-> "ok", data |-> d] :
       d \in UNION {[ks -> SchemaEntries] :
                     ks \in {x \in SUBSET SchemaKeys : Cardinality(x) <= MaxEntries}}}
    \cup {[status |-> "missing", data |-> EmptyDict],
          [status |-> "invalid", data |-> EmptyDict]}

LoadInit ==
    /\ json_file \in SchemaFiles
    /\ mappings = EmptyDict
    /\ lpc = "start"
    /\ RunIdle
    /\ TextIdle
    /\ SetIdle
    /\ LookupIdle

\* load_schema_mappings: the mappings are returned, or the error is reported
\* and the process exits with status 1.
LoadSchemaMappings ==
    /\ lpc = "start"
    /\ IF json_file.status = "ok"
       THEN /\ mappings' = load_schema_mappings(json_file.data)
            /\ lpc' = "loaded"
            /\ stderr' = stderr
       ELSE /\ mappings' = mappings
            /\ lpc' = "exit1"
            /\ stderr' = Append(stderr,
                                [kind |-> IF json_file.status = "missing"
                                          THEN "schema_not_found" ELSE "invalid_json",
                                 doc |-> <<>>])
    /\ UNCHANGED json_file
    /\ UNCHANGED <<pdf_paths, caller, pc, index, all_attributes, enhanced_schema,
                   raw_data, outputs>>
    /\ UNCHANGED <<textvars, setvars, lookupvars>>

LoadNext == LoadSchemaMappings

SpecLoad == LoadInit /\ [][LoadNext]_vars

\* ------------------------------------------------------------------------
\* SchemaLookup and the commands that read it
\* ------------------------------------------------------------------------
\* A dict is kept as the sequence of its items, [key, value] records, in
\* insertion order.
DictHas(items, key) == \E i \in 1..Len(items) : items[i].key = key

\* dict.get(key, default)
DictGet(items, key, default) ==
    IF DictHas(items, key)
    THEN items[CHOOSE i \in 1..Len(items) : items[i].key = key].value
    ELSE default

\* d[key] = value: a key the dict has keeps its place, a new one goes last.
DictSet(items, key, value) ==
    IF DictHas(items, key)
    THEN [items EXCEPT ![CHOOSE i \in 1..Len(items) : items[i].key = key] =
                          [key |-> key, value |-> value]]
    ELSE Append(items, [key |-> key, value |-> value])

\* The characters of the model in code point order.
CodePoints ==
    <<"\t", NL, "\r", SP, "#", "-", ".">> \o
    <<"0", "1", "2", "3", "4", "5", "6", "7", "8", "9", ":">> \o
    UpperCase \o <<"_">> \o LowerCase \o <<"{", "|", "}", NBSP>>

\* The place of c in that order.
Ord(c) == CHOOSE i \in 1..Len(CodePoints) : CodePoints[i] = c

\* a < b on str.
StrLess(a, b) ==
    LET n == IF Len(a) < Len(b) THEN Len(a) ELSE Len(b)
        diff == {i \in 1..n : a[i] # b[i]}
    IN IF diff = {} THEN Len(a) < Len(b)
       ELSE Ord(a[MinOf(diff)]) < Ord(b[MinOf(diff)])

\* The keys of a JSON object written with sort_keys=True, in file order.
RECURSIVE SortedKeys(_)
SortedKeys(keys) ==
    IF keys = {} THEN <<>>
    ELSE LET least == CHOOSE k \in keys : \A o \in keys \ {k} : StrLess(k, o)
         IN <<least>> \o SortedKeys(keys \ {least})

\* json.load of the file json.dump(enhanced_schema, sort_keys=True) wrote,
\* given to load_schema_mappings: the mappings dict, in file order.
LoadedMappings(enhanced_data) ==
    LET order == SortedKeys(DOMAIN enhanced_data)
    IN [i \in 1..Len(order) |->
          [key |-> order[i], value |-> load_schema_mappings(enhanced_data)[order[i]]]]

\* _name_to_guid = None
NotBuilt == [built |-> FALSE, items |-> <<>>]

\* {v: k for k, v in self.guid_to_name.items()} from the i-th item on.
RECURSIVE ReverseFrom(_, _, _)
ReverseFrom(items, i, acc) ==
    IF i > Len(items) THEN acc
    ELSE ReverseFrom(items, i + 1, DictSet(acc, items[i].value, items[i].key))

\* The reverse mapping keeping the first key of a name.
name_to_guid_first(cache, items) ==
    IF cache.built THEN cache
    ELSE [built |-> TRUE,
          items |-> ReverseFrom([i \in 1..Len(items) |-> items[Len(items) + 1 - i]],
                                1, <<>>)]

\* The name_to_guid property: _name_to_guid after the access.
name_to_guid(cache, items) ==
    IF cache.built THEN cache
    ELSE [built |-> TRUE, items |-> ReverseFrom(items, 1, <<>>)]

\* SchemaLookup.lookup_by_guid; None is JSON's null.
lookup_by_guid(items, guid) == DictGet(items, normalize_guid(guid), JsonNull)

\* SchemaLookup.lookup_by_name on the reverse mapping.
lookup_by_name(reverse, name) == DictGet(reverse, JsonString(name), None)

\* SchemaLookup.search_by_pattern: name.lower() raises for a name that is
\* not a str.
search_by_pattern(items, pattern) ==
    IF \E i \in 1..Len(items) : items[i].value.type # "string"
    THEN [kind |-> "error", value |-> <<>>]
    ELSE [kind |-> "matches",
          value |-> SelectSeq(items,
                              LAMBDA it : Contains(Lower(it.value.text), Lower(pattern)))]

\* sorted(..., key=lambda x: x[1]) from the i-th item on: each item goes
\* behind the items whose name is not greater (the sort is stable).
RECURSIVE SortedByName(_, _, _)
SortedByName(items, i, acc) ==
    IF i > Len(items) THEN acc
    ELSE LET behind == {j \in 1..Len(acc) :
                          StrLess(items[i].value.text, acc[j].value.text)}
             at == IF behind = {} THEN Len(acc) + 1 ELSE MinOf(behind)
         IN SortedByName(items, i + 1,
                         SubSeq(acc, 1, at - 1) \o <<items[i]>> \o SubSeq(acc, at, Len(acc)))

\* list_all: the items sorted by name.  Comparing a name that is None raises;
\* the names are str or None.
list_all(items) ==
    IF Len(items) >= 2 /\ \E i \in 1..Len(items) : items[i].value.type # "string"
    THEN [kind |-> "error", value |-> <<>>]
    ELSE [kind |-> "listing", value |-> SortedByName(items, 1, <<>>)]

\* A key in wrapping braces.
Braced(guid) == <<"{">> \o guid \o <<"}">>

\* The arguments the calls are made with.
GuidArguments ==
    {GuidText("B"), GuidText("b"), Braced(GuidText("B")), Braced(GuidText("b")),
     <<SP>> \o Braced(GuidText("a")) \o <<NL>>, <<"k">>, GuidText("d")}

NameArguments == {<<"a", "B">>, <<"n">>, <<"m">>, <<"q">>}

PatternArguments == {<<>>, <<"A">>, <<"N">>}

\* lookup.lookup_by_guid(guid)
LookupByGuid ==
    /\ kpc = "ready"
    /\ \E guid \in GuidArguments :
         /\ call' = [op |-> "lookup_by_guid", arg |-> guid]
         /\ result' = [kind |-> "name", value |-> lookup_by_guid(guid_to_name, guid)]
    /\ UNCHANGED <<guid_to_name, _name_to_guid, kpc>>
    /\ UNCHANGED <<runvars, textvars, setvars, loadvars>>

\* lookup.lookup_by_name(name): the reverse mapping is built at the first call.
LookupByName ==
    /\ kpc = "ready"
    /\ _name_to_guid' = name_to_guid(_name_to_guid, guid_to_name)
    /\ \E name \in NameArguments :
         /\ call' = [op |-> "lookup_by_name", arg |-> name]
         /\ result' = [kind |-> "guid",
                       value |-> lookup_by_name(_name_to_guid'.items, name)]
    /\ UNCHANGED <<guid_to_name, kpc>>
    /\ UNCHANGED <<runvars, textvars, setvars, loadvars>>

\* lookup.search_by_pattern(pattern)
SearchByPattern ==
    /\ kpc = "ready"
    /\ \E pattern \in PatternArguments :
         /\ call' = [op |-> "search_by_pattern", arg |-> pattern]
         /\ result' = search_by_pattern(guid_to_name, pattern)
    /\ UNCHANGED <<guid_to_name, _name_to_guid, kpc>>
    /\ UNCHANGED <<runvars, textvars, setvars, loadvars>>

\* list_all(lookup)
ListAll ==
    /\ kpc = "ready"
    /\ call' = [op |-> "list_all", arg |-> <<>>]
    /\ result' = list_all(guid_to_name)
    /\ UNCHANGED <<guid_to_name, _name_to_guid, kpc>>
    /\ UNCHANGED <<runvars, textvars, setvars, loadvars>>

LookupNext ==
    \/ LookupByGuid
    \/ LookupByName
    \/ SearchByPattern
    \/ ListAll

\* The keys and names of the mappings a SchemaLookup is made of.
LookupKeys == {GuidText("a"), GuidText("b"), <<"k">>}

LookupNames == {JsonString(<<"n">>), JsonString(<<"m">>), JsonNull}

\* The most items such a mapping has.
MaxMappings == 3

LookupMappings ==
    {m \in UNION {[1..n -> [key : LookupKeys, value : LookupNames]] : n \in 0..MaxMappings} :
       \A i, j \in 1..Len(m) : i # j => m[i].key # m[j].key}

\* SchemaLookup.__init__
LookupInit ==
    /\ guid_to_name \in LookupMappings
    /\ _name_to_guid = NotBuilt
    /\ kpc = "ready"
    /\ call = [op |-> "none", arg |-> <<>>]
    /\ result = [kind |-> "none", value |-> <<>>]
    /\ RunIdle
    /\ TextIdle
    /\ SetIdle
    /\ LoadIdle

SpecLookup == LookupInit /\ [][LookupNext]_vars

\* ------------------------------------------------------------------------
\* The pipeline and its consumer: build-schema, then a command on its file
\* ------------------------------------------------------------------------
\* main() of the CLI for a command that reads the schema file build-schema
\* wrote: mappings = load_schema_mappings(...); lookup = SchemaLookup(mappings)
LoadExported ==
    /\ pc = "done"
    /\ "enhanced" \in outputs
    /\ kpc = "idle"
    /\ guid_to_name' = LoadedMappings(enhanced_schema)
    /\ _name_to_guid' = NotBuilt
    /\ kpc' = "ready"
    /\ UNCHANGED <<call, result>>
    /\ UNCHANGED <<runvars, textvars, setvars, loadvars>>

PipelineNext ==
    \/ Next
    \/ LoadExported
    \/ LookupNext

SpecPipeline == Init /\ [][PipelineNext]_vars

\* ------------------------------------------------------------------------
\* Properties of consolidation
\* ------------------------------------------------------------------------
Consolidated == pc \in {"parsed", "done"}

\* The records each document hands to the Consolidator: those of its blocks
\* when it is readable, none otherwise.
LibraryRecords ==
    [doc \in DocLibrary |->
       IF doc.status = "ok"
       THEN parse_attribute_blocks(JoinFrom(doc.pages, 1), doc.name)
       ELSE <<>>]

Produced(doc) == LibraryRecords[doc]

\* The records of docs[i..], in document order then block order.
RECURSIVE StreamFrom(_, _)
StreamFrom(docs, i) ==
    IF i > Len(docs) THEN <<>> ELSE Produced(docs[i]) \o StreamFrom(docs, i + 1)

RecordStream == StreamFrom(pdf_paths, 1)

\* A field is present when it holds a non-empty string.
Present(v) == v # None /\ v # <<>>

Keyable(r) == Present(r["schema_id_guid"]) \/ Present(r["ldap_display_name"])

\* uniqueKey if present, else displayName.
ChosenKey(r) ==
    IF Present(r["schema_id_guid"]) THEN r["schema_id_guid"] ELSE r["ldap_display_name"]

HasHyphen(k) == \E i \in 1..Len(k) : k[i] = "-"

\* The canonical key of a keyable record.
CanonicalKey(r) ==
    IF Len(ChosenKey(r)) = GuidLen /\ HasHyphen(ChosenKey(r))
    THEN Lower(ChosenKey(r))
    ELSE ChosenKey(r)

\* C1: after consolidation every table entry is exactly the last record of
\* the stream (document order, then block order) whose canonical key is the
\* entry's key, provenance included.
C1_LastWriteWins ==
    Consolidated =>
      LET stream == RecordStream
          keyed == {i \in 1..Len(stream) : Keyable(stream[i])}
          key == [i \in keyed |-> CanonicalKey(stream[i])]
      IN \A k \in DOMAIN all_attributes :
           \E i \in keyed :
             /\ key[i] = k
             /\ all_attributes[k] = stream[i]
             /\ \A j \in keyed : j > i => key[j] # k

\* Two different records met under one key, from two documents and from two
\* blocks of one document.
C1_Witness ==
    /\ Consolidated
    /\ LET stream == RecordStream
           keyed == {i \in 1..Len(stream) : Keyable(stream[i])}
           key == [i \in keyed |-> CanonicalKey(stream[i])]
       IN /\ \E i, j \in keyed :
               /\ i < j
               /\ key[i] = key[j]
               /\ stream[i]["source_pdf"] # stream[j]["source_pdf"]
               /\ stream[i]["cn"] # stream[j]["cn"]
          /\ \E i, j \in keyed :
               /\ i < j
               /\ key[i] = key[j]
               /\ stream[i]["source_pdf"] = stream[j]["source_pdf"]
               /\ stream[i]["source_section"] # stream[j]["source_section"]

\* C2: after consolidation the table's key set is exactly the set of
\* canonical keys of the keyable records of the readable documents.
C2_KeySet ==
    Consolidated =>
      LET stream == RecordStream
      IN DOMAIN all_attributes =
           {CanonicalKey(stream[i]) :
              i \in {j \in 1..Len(stream) : Keyable(stream[j])}}

\* Document a yields {K1}, document b yields {K1, K2}: the table has exactly
\* K1 and K2, both holding b's records.
C2_Witness ==
    /\ Consolidated
    /\ Len(pdf_paths) = 2
    /\ pdf_paths[1].name = <<"a">> /\ pdf_paths[2].name = <<"b">>
    /\ {CanonicalKey(Produced(pdf_paths[1])[i]) : i \in 1..Len(Produced(pdf_paths[1]))}
         = {GuidText("b")}
    /\ DOMAIN all_attributes = {GuidText("b"), <<"a", "B">>}
    /\ \A k \in DOMAIN all_attributes : all_attributes[k]["source_pdf"] = <<"b">>
    /\ all_attributes[GuidText("b")]["cn"] = <<"q">>

\* C3: a record is stored under its uniqueKey when it has one, else under its
\* displayName; a record with neither is stored under no key and the run
\* still returns.
C3_KeySelection ==
    Consolidated =>
      /\ \A k \in DOMAIN all_attributes :
           /\ Keyable(all_attributes[k])
           /\ Present(all_attributes[k]["schema_id_guid"]) =>
                k = CanonicalKey([all_attributes[k] EXCEPT !["ldap_display_name"] = None])
           /\ ~Present(all_attributes[k]["schema_id_guid"]) =>
                k = CanonicalKey([all_attributes[k] EXCEPT !["schema_id_guid"] = None])
      /\ LET stream == RecordStream
         IN \A i \in 1..Len(stream) :
              IF Keyable(stream[i])
              THEN CanonicalKey(stream[i]) \in DOMAIN all_attributes
              ELSE \A k \in DOMAIN all_attributes : all_attributes[k] # stream[i]

\* A run that returned after meeting a record with a uniqueKey and a different
\* displayName, a record with a displayName only and a record with neither.
C3_Witness ==
    /\ Consolidated
    /\ \E i \in 1..Len(RecordStream) : ~Keyable(RecordStream[i])
    /\ \E k \in DOMAIN all_attributes :
         /\ Present(all_attributes[k]["schema_id_guid"])
         /\ Present(all_attributes[k]["ldap_display_name"])
    /\ \E k \in DOMAIN all_attributes :
         /\ ~Present(all_attributes[k]["schema_id_guid"])
         /\ k = all_attributes[k]["ldap_display_name"]

\* The 8-4-4-4-12 grouping of a 36-character identifier.
IsGuidShaped(v) ==
    /\ Len(v) = GuidLen
    /\ \A i \in 1..GuidLen : (v[i] = "-") <=> (i \in {9, 14, 19, 24})

\* C4: the uniqueKey value of every stored record, and of every exported
\* form of it, is lowercase when it is present and has the 36-character
\* hyphenated grouping.
C4_StoredLowercase ==
    /\ \A k \in DOMAIN all_attributes :
         LET g == all_attributes[k]["schema_id_guid"]
         IN (Present(g) /\ IsGuidShaped(g)) => g = Lower(g)
    /\ \A k \in DOMAIN raw_data :
         "schema_id_guid" \in DOMAIN raw_data[k] =>
           LET g == raw_data[k]["schema_id_guid"]
           IN (Present(g) /\ IsGuidShaped(g)) => g = Lower(g)

\* C5: a chosen key of exactly 36 characters that contains a hyphen enters
\* the table lowercased and in no other spelling; every other chosen key
\* enters the table unchanged.
C5_Canonicalization ==
    Consolidated =>
      LET stream == RecordStream
      IN \A i \in 1..Len(stream) :
           Keyable(stream[i]) =>
             LET key == ChosenKey(stream[i])
             IN IF Len(key) = GuidLen /\ HasHyphen(key)
                THEN /\ Lower(key) \in DOMAIN all_attributes
                     /\ key # Lower(key) => key \notin DOMAIN all_attributes
                ELSE key \in DOMAIN all_attributes

\* Two records whose 36-character hyphenated keys differ only in letter case
\* share one entry, next to an uppercase 36-character key without hyphen and
\* an uppercase 35-character key with one, both kept as written.
C5_Witness ==
    /\ Consolidated
    /\ LET stream == RecordStream
       IN \E i, j \in 1..Len(stream) :
            /\ Keyable(stream[i]) /\ Keyable(stream[j])
            /\ ChosenKey(stream[i]) # ChosenKey(stream[j])
            /\ Lower(ChosenKey(stream[i])) = Lower(ChosenKey(stream[j]))
            /\ Len(ChosenKey(stream[i])) = GuidLen /\ HasHyphen(ChosenKey(stream[i]))
            /\ Cardinality({k \in DOMAIN all_attributes :
                              Lower(k) = Lower(ChosenKey(stream[i]))}) = 1
    /\ LongLabelPlain \in DOMAIN all_attributes
    /\ ShortLabelHyphen \in DOMAIN all_attributes
    /\ Lower(LongLabelHyphen) \in DOMAIN all_attributes

\* ------------------------------------------------------------------------
\* Properties of failure handling
\* ------------------------------------------------------------------------
\* The records of docs[i..] inserted into table, document by document.
RECURSIVE FoldDocs(_, _, _)
FoldDocs(table, docs, i) ==
    IF i > Len(docs) THEN table
    ELSE FoldDocs(InsertFrom(table, Produced(docs[i]), 1), docs, i + 1)

ReadableDocs == SelectSeq(pdf_paths, LAMBDA d : d.status = "ok")

FailedDocs == SelectSeq(pdf_paths, LAMBDA d : d.status # "ok")

\* C6: parse_multiple_pdfs returns for every list of documents; it reports
\* each missing or unreadable document, once and in order, and returns the
\* table that consolidating the readable documents alone, in the same order,
\* gives.
C6_SkipsFailedDocs ==
    Consolidated =>
      /\ all_attributes = FoldDocs(EmptyDict, ReadableDocs, 1)
      /\ Len(stderr) = Len(FailedDocs)
      /\ \A i \in 1..Len(stderr) :
           /\ stderr[i].doc = FailedDocs[i].name
           /\ stderr[i].kind =
                (IF FailedDocs[i].status = "missing"
                 THEN "warning_not_found" ELSE "error_reading")

\* The run returned a non-empty table although a document before a readable
\* one was missing or unreadable.
C6_Witness ==
    /\ Consolidated
    /\ \E i, j \in 1..Len(pdf_paths) :
         /\ i < j
         /\ pdf_paths[i].status # "ok"
         /\ pdf_paths[j].status = "ok"
         /\ Produced(pdf_paths[j]) # <<>>
    /\ all_attributes # EmptyDict
    /\ stderr # <<>>

Terminated == pc \in {"done", "exit1"}

C8_BlocksCoverText ==
    (tpc = "returned" /\ Len(blocks) > 0) =>
      LET ms == attribute_matches
          n == Len(blocks)
      IN /\ \A i \in 1..(n - 1) :
              /\ blocks[i] = Slice(text, ms[i].start, ms[i + 1].start)
              /\ ms[i].start + Len(blocks[i]) = ms[i + 1].start
         /\ blocks[n] = Slice(text, ms[n].start, Len(text) + 1)
         /\ ms[n].start + Len(blocks[n]) = Len(text) + 1

\* C8 as amended: the blocks, in order, cover the text from the first heading
\* anchor to the end of the text or to 2000 characters past the last anchor's
\* start, whichever comes first, each block ending where the next starts.
C8_BlocksCoverWindow ==
    (tpc = "returned" /\ Len(blocks) > 0) =>
      LET ms == attribute_matches
          n == Len(blocks)
          stop == IF ms[n].start + BlockWindow < Len(text) + 1
                  THEN ms[n].start + BlockWindow
                  ELSE Len(text) + 1
      IN /\ n = Len(ms)
         /\ \A i \in 1..(n - 1) :
              /\ blocks[i] = Slice(text, ms[i].start, ms[i + 1].start)
              /\ ms[i].start + Len(blocks[i]) = ms[i + 1].start
         /\ blocks[n] = Slice(text, ms[n].start, stop)
         /\ ms[n].start + Len(blocks[n]) = stop

\* A text with a preamble, two anchors and more than 2000 characters after
\* the last anchor's start has been segmented.
C8_Witness ==
    /\ tpc = "returned"
    /\ Len(blocks) = 2
    /\ attribute_matches[1].start > 1
    /\ attribute_matches[2].start + BlockWindow < Len(text) + 1
    /\ Len(blocks[2]) = BlockWindow

\* The remainders of the lines of block b that carry f's label and a colon,
\* white space normalized.
LabelLineValues(b, f) ==
    LET lab == <<NBSP>> \o FieldLabel(f) \o <<":">>
        lines == SplitLines(b)
    IN {Strip(NormalizeWhitespace(Slice(lines[i], Len(lab) + 1, Len(lines[i]) + 1))) :
          i \in {j \in 1..Len(lines) : MatchAtNoCase(lines[j], 1, lab)}}

\* C9: a value stored for a field (the flag fields aside) is the white-space
\* normalized remainder of a line of the block that carries the field's
\* label, never text of another line; and a block with a label line that has
\* a value yields a value for the field.
C9_ValueFromLabelLine ==
    tpc = "returned" =>
      \A i \in 1..Len(attributes) :
        \A f \in PatternFields \ FlagFields :
          LET values == LabelLineValues(blocks[i], f)
              stored == attributes[i][f]
          IN /\ (stored # None
                   /\ ~(f = "ldap_display_name"
                          /\ stored = Strip(attribute_matches[i].label)))
                  => stored \in values
             /\ (\E v \in values : v # <<>>) => stored # None

\* C10: every field of every stored record is None or a non-empty string,
\* and the raw export holds no empty string.
C10_NoEmptyString ==
    /\ \A k \in DOMAIN all_attributes :
         \A f \in PatternFields : all_attributes[k][f] # <<>>
    /\ \A k \in DOMAIN raw_data :
         \A f \in DOMAIN raw_data[k] : raw_data[k][f] # <<>>

\* ------------------------------------------------------------------------
\* Properties of the flag-field continuation and of value clean-up
\* ------------------------------------------------------------------------
\* Where the run of double-indent lines that starts at line j ends: the first
\* line from j on that does not begin with the double-indent marker.
FlagRunEnd(lines, j) ==
    CHOOSE e \in j..(Len(lines) + 1) :
      /\ e = Len(lines) + 1 \/ ~MatchAt(lines[e], 1, DoubleIndent)
      /\ \A r \in j..(e - 1) : MatchAt(lines[r], 1, DoubleIndent)

\* acc followed by the indent-stripped content of lines[j..e-1], each joined
\* by a single space (a line without content adds nothing).
RECURSIVE AppendRun(_, _, _, _)
AppendRun(lines, j, e, acc) ==
    IF j >= e THEN acc
    ELSE LET content == Strip(Slice(lines[j], Len(DoubleIndent) + 1, Len(lines[j]) + 1))
         IN AppendRun(lines, j + 1, e,
                      IF content = <<>> THEN acc ELSE acc \o <<SP>> \o content)

\* The lines of block b that carry f's label and a colon.
LabelLines(b, f) ==
    {j \in 1..Len(SplitLines(b)) :
       MatchAtNoCase(SplitLines(b)[j], 1, <<NBSP>> \o FieldLabel(f) \o <<":">>)}

\* The remainder of line j of b after f's label and colon, trimmed.
FirstLineValue(b, f, j) ==
    Strip(Slice(SplitLines(b)[j], Len(FieldLabel(f)) + 3, Len(SplitLines(b)[j]) + 1))

\* C11: a flag field whose first-line value ends with "|" is stored as that
\* value followed by the indent-stripped content of every line of the maximal
\* run of double-indent lines right after the matched line, joined by single
\* spaces, and by nothing of any later line.
C11_ContinuationRun ==
    tpc = "returned" =>
      \A i \in 1..Len(attributes) :
        \A f \in FlagFields :
          LabelLines(blocks[i], f) # {} =>
            LET lines == SplitLines(blocks[i])
                j == MinOf(LabelLines(blocks[i], f))
                first == FirstLineValue(blocks[i], f, j)
            IN EndsWith(first, <<"|">>) =>
                 attributes[i][f] =
                   Strip(NormalizeWhitespace(
                     AppendRun(lines, j + 1, FlagRunEnd(lines, j + 1), first)))

\* No white space but single spaces, and none at either end.
Tidy(v) ==
    /\ \A k \in 1..Len(v) : IsSpace(v[k]) => v[k] = SP
    /\ \A k \in 1..(Len(v) - 1) : ~(v[k] = SP /\ v[k + 1] = SP)
    /\ Len(v) > 0 => (v[1] # SP /\ v[Len(v)] # SP)

\* C12: every value the field loop stores (the heading-derived display name
\* is not one of them) has no white space run, no white space other than
\* single spaces, and no white space at either end.
C12_ValuesTidy ==
    \A i \in 1..Len(attributes) :
      \A f \in PatternFields :
        LET v == attributes[i][f]
        IN (v # None
              /\ ~(f = "ldap_display_name" /\ v = Strip(attribute_matches[i].label)))
             => Tidy(v)

\* A record holds a flag value repaired from two continuation lines, one of
\* them with a tab and no-break spaces inside, and a single-line flag value
\* whose line had two spaces in a row.
C12_Witness ==
    /\ tpc = "returned"
    /\ Len(attributes) = 1
    /\ attributes[1]["system_flags"] =
         <<"A", SP, "|", SP, "B", SP, "|", SP, "C", "D", SP, "E">>
    /\ attributes[1]["schema_flags_ex"] =
         <<"F", "L", "A", "G", "_", "E", SP, "|">>

\* ------------------------------------------------------------------------
\* Properties of the display name
\* ------------------------------------------------------------------------
\* What the ldapDisplayName pattern captured in the i-th block.
CapturedName(i) ==
    ExtractField(blocks[i], "ldap_display_name", LineStarts(blocks[i]))

\* The heading label of the i-th anchor, trimmed.
HeadingName(i) == Strip(attribute_matches[i].label)

\* C13 as stated: every record has its displayName set, to the captured
\* ldapDisplayName when one was captured and to the heading label otherwise.
C13_DisplayNameSet ==
    \A i \in 1..Len(attributes) :
      /\ Present(attributes[i]["ldap_display_name"])
      /\ attributes[i]["ldap_display_name"] =
           (IF Present(CapturedName(i)) THEN CapturedName(i) ELSE HeadingName(i))

\* C13 as amended: displayName is the captured ldapDisplayName when one was
\* captured, otherwise the heading label when that is not blank; it is set
\* for every record whose heading label is not blank, and unset for a record
\* whose heading label is blank.
C13_DisplayNameSetUnlessBlank ==
    \A i \in 1..Len(attributes) :
      /\ attributes[i]["ldap_display_name"] =
           (IF Present(CapturedName(i)) THEN CapturedName(i)
            ELSE IF HeadingName(i) # <<>> THEN HeadingName(i)
            ELSE CapturedName(i))
      /\ HeadingName(i) # <<>> => Present(attributes[i]["ldap_display_name"])
      /\ HeadingName(i) = <<>> => attributes[i]["ldap_display_name"] = None

\* The records returned include one named by its captured ldapDisplayName,
\* which differs from its heading label, and one with a blank heading label
\* and no name.
C13_Witness ==
    /\ tpc = "returned"
    /\ \E i \in 1..Len(attributes) :
         /\ Present(CapturedName(i))
         /\ CapturedName(i) # HeadingName(i)
         /\ attributes[i]["ldap_display_name"] = CapturedName(i)
    /\ \E i \in 1..Len(attributes) :
         /\ HeadingName(i) = <<>>
         /\ attributes[i]["ldap_display_name"] = None

\* ------------------------------------------------------------------------
\* Properties of the persisted schema
\* ------------------------------------------------------------------------
Exported == "enhanced" \in outputs

\* The record value an exported field is read from.
SourceValue(attr, ef) ==
    IF ef = "ldapDisplayName" THEN attr["ldap_display_name"] ELSE attr[EnhancedSource(ef)]

\* C14: no field of an entry of the persisted schema is null or the empty
\* string, the display name included: a field is in an entry only if the
\* record's value for it is neither None nor empty.
C14_NoNullNoEmpty ==
    Exported =>
      \A k \in DOMAIN enhanced_schema :
        \A ef \in DOMAIN enhanced_schema[k] :
          /\ enhanced_schema[k][ef].type # "null"
          /\ enhanced_schema[k][ef].text # <<>>
          /\ Present(SourceValue(all_attributes[k], ef))

\* A record whose cn is the empty string was exported, next to None fields,
\* and its entry has no cn.
C14_Witness ==
    /\ Exported
    /\ \E k \in DOMAIN all_attributes :
         /\ all_attributes[k]["cn"] = <<>>
         /\ all_attributes[k]["search_flags"] = None
         /\ DOMAIN enhanced_schema[k] = {"ldapDisplayName", "isSingleValued", "omSyntax"}

\* The names under which provenance could be exported.
ProvenanceNames == {"sourceSection", "sourceDocument", "source_section", "source_pdf"}

\* A record with no data besides provenance and its display name.
Bare(attr) ==
    /\ Present(attr["ldap_display_name"])
    /\ \A f \in PatternFields \ {"ldap_display_name"} : attr[f] = None

\* C15: the persisted schema has exactly one entry per key of the table,
\* under that key; a record with a display name only is exported as an entry
\* with that one field; no entry has a provenance field.
C15_OneEntryPerKey ==
    Exported =>
      /\ DOMAIN enhanced_schema = DOMAIN all_attributes
      /\ \A k \in DOMAIN enhanced_schema :
           /\ DOMAIN enhanced_schema[k] \cap ProvenanceNames = {}
           /\ Bare(all_attributes[k]) =>
                enhanced_schema[k] =
                  [ef \in {"ldapDisplayName"} |->
                     JsonString(all_attributes[k]["ldap_display_name"])]

\* A table with a bare record and a record with fields was exported.
C15_Witness ==
    /\ Exported
    /\ \E k \in DOMAIN all_attributes :
         /\ Bare(all_attributes[k])
         /\ all_attributes[k]["source_section"] # None
         /\ DOMAIN enhanced_schema[k] = {"ldapDisplayName"}
    /\ \E k \in DOMAIN all_attributes : "cn" \in DOMAIN enhanced_schema[k]

\* C16: isSingleValued, systemOnly and isMemberOfPartialAttributeSet are
\* exported as true for "TRUE", false for "FALSE" and as the unchanged string
\* for any other non-empty value, never dropped; no other field is exported
\* as a boolean.
C16_BooleanCoercion ==
    Exported =>
      \A k \in DOMAIN enhanced_schema :
        /\ \A ef \in BooleanFields :
             LET raw == all_attributes[k][EnhancedSource(ef)]
             IN Present(raw) =>
                  /\ ef \in DOMAIN enhanced_schema[k]
                  /\ enhanced_schema[k][ef] =
                       (IF raw = <<"T", "R", "U", "E">>
                        THEN [type |-> "boolean", text |-> <<"t", "r", "u", "e">>]
                        ELSE IF raw = <<"F", "A", "L", "S", "E">>
                        THEN [type |-> "boolean", text |-> <<"f", "a", "l", "s", "e">>]
                        ELSE [type |-> "string", text |-> raw])
        /\ \A ef \in DOMAIN enhanced_schema[k] \ BooleanFields :
             enhanced_schema[k][ef].type # "boolean"

\* "TRUE", "FALSE", "Maybe" and "true" were exported in boolean fields, and
\* "TRUE" in cn.
C16_Witness ==
    /\ Exported
    /\ <<"k">> \in DOMAIN enhanced_schema /\ <<"j">> \in DOMAIN enhanced_schema
    /\ enhanced_schema[<<"k">>]["isSingleValued"].type = "boolean"
    /\ enhanced_schema[<<"k">>]["isMemberOfPartialAttributeSet"].type = "boolean"
    /\ enhanced_schema[<<"k">>]["systemOnly"] = JsonString(<<"M", "a", "y", "b", "e">>)
    /\ enhanced_schema[<<"k">>]["cn"] = JsonString(<<"T", "R", "U", "E">>)
    /\ enhanced_schema[<<"j">>]["isSingleValued"] = JsonString(<<"t", "r", "u", "e">>)

\* C17: omSyntax, rangeLower, rangeUpper and mapiID are exported as the
\* integer the value parses to, or as the original string when it does not
\* parse; a non-empty value is never dropped.
C17_IntegerCoercion ==
    Exported =>
      \A k \in DOMAIN enhanced_schema :
        \A ef \in IntegerFields :
          LET raw == all_attributes[k][EnhancedSource(ef)]
          IN Present(raw) =>
               /\ ef \in DOMAIN enhanced_schema[k]
               /\ enhanced_schema[k][ef] =
                    (IF IsIntLiteral(raw)
                     THEN [type |-> "number", text |-> IntText(raw)]
                     ELSE [type |-> "string", text |-> raw])

\* "64", "007" and "-7" were exported as the numbers 64, 7 and -7, "abc" and
\* "6 4" as strings, and "64" in attributeId as a string.
C17_Witness ==
    /\ Exported
    /\ <<"k">> \in DOMAIN enhanced_schema /\ <<"j">> \in DOMAIN enhanced_schema
    /\ enhanced_schema[<<"k">>]["omSyntax"] = [type |-> "number", text |-> <<"6", "4">>]
    /\ enhanced_schema[<<"k">>]["rangeLower"] = [type |-> "number", text |-> <<"7">>]
    /\ enhanced_schema[<<"k">>]["mapiID"] = [type |-> "number", text |-> <<"-", "7">>]
    /\ enhanced_schema[<<"k">>]["rangeUpper"] = JsonString(<<"a", "b", "c">>)
    /\ enhanced_schema[<<"k">>]["attributeId"] = JsonString(<<"6", "4">>)
    /\ enhanced_schema[<<"j">>]["omSyntax"] = JsonString(<<"6", SP, "4">>)

\* ------------------------------------------------------------------------
\* Properties of blocks without fields
\* ------------------------------------------------------------------------
\* The heading anchors of each document's text.
DocAnchors ==
    [doc \in DocLibrary |-> attribute_header_finditer(JoinFrom(doc.pages, 1))]

\* For each document and block: no field pattern matches in the block.
NoFieldMatches ==
    [doc \in DocLibrary |->
       [i \in 1..Len(DocAnchors[doc]) |->
          LET b == AttrBlock(JoinFrom(doc.pages, 1), DocAnchors[doc], i)
          IN \A f \in PatternFields : FieldSearch(b, f, LineStarts(b)) = {}]]

\* The record of block i of doc carries provenance and nothing else besides
\* the display name.
OnlyProvenance(doc, i) ==
    LET r == Produced(doc)[i]
    IN /\ \A f \in PatternFields \ {"ldap_display_name"} : r[f] = None
       /\ r["source_section"] = DocAnchors[doc][i].section
       /\ r["source_pdf"] = doc.name

\* C20 as stated: a block in which no field pattern matches yields one
\* record with provenance and the heading's label as display name and no
\* other data, and the table has an entry under that display name.
C20_BareBlockKept ==
    Consolidated =>
      \A n \in 1..Len(pdf_paths) :
        LET doc == pdf_paths[n]
        IN doc.status = "ok" =>
             /\ Len(Produced(doc)) = Len(DocAnchors[doc])
             /\ \A i \in 1..Len(DocAnchors[doc]) :
                  NoFieldMatches[doc][i] =>
                    /\ OnlyProvenance(doc, i)
                    /\ Produced(doc)[i]["ldap_display_name"] =
                         Strip(DocAnchors[doc][i].label)
                    /\ Present(Produced(doc)[i]["ldap_display_name"])
                    /\ Produced(doc)[i]["ldap_display_name"] \in DOMAIN all_attributes

\* C20 as amended: such a block yields one record with provenance and no
\* other data; when the heading's label is not blank the record's display
\* name is that label and the table has an entry under it, lowercased when it
\* is 36 characters long and contains a hyphen; when the label is blank the
\* record has no display name and is in no entry of the table.
C20_BareBlockKeptIfNamed ==
    Consolidated =>
      \A n \in 1..Len(pdf_paths) :
        LET doc == pdf_paths[n]
        IN doc.status = "ok" =>
             /\ Len(Produced(doc)) = Len(DocAnchors[doc])
             /\ \A i \in 1..Len(DocAnchors[doc]) :
                  NoFieldMatches[doc][i] =>
                    LET r == Produced(doc)[i]
                        label == Strip(DocAnchors[doc][i].label)
                    IN /\ OnlyProvenance(doc, i)
                       /\ IF label # <<>>
                          THEN /\ r["ldap_display_name"] = label
                               /\ (IF Len(label) = GuidLen /\ HasHyphen(label)
                                    THEN Lower(label) ELSE label) \in DOMAIN all_attributes
                          ELSE /\ r["ldap_display_name"] = None
                               /\ \A k \in DOMAIN all_attributes : all_attributes[k] # r

\* Blocks without fields were consolidated: one is the entry under its
\* heading label, one the entry under its lowercased 36-character label, and
\* one, with a blank label, is in no entry.
C20_Witness ==
    /\ Consolidated
    /\ \E n \in 1..Len(pdf_paths) :
         \E i \in 1..Len(Produced(pdf_paths[n])) :
           LET r == Produced(pdf_paths[n])[i]
           IN /\ NoFieldMatches[pdf_paths[n]][i]
              /\ r["ldap_display_name"] = LongLabelPlain
              /\ all_attributes[LongLabelPlain] = r
    /\ \E n \in 1..Len(pdf_paths) :
         \E i \in 1..Len(Produced(pdf_paths[n])) :
           LET r == Produced(pdf_paths[n])[i]
           IN /\ NoFieldMatches[pdf_paths[n]][i]
              /\ r["ldap_display_name"] = LongLabelHyphen
              /\ LongLabelHyphen \notin DOMAIN all_attributes
              /\ all_attributes[Lower(LongLabelHyphen)] = r
    /\ \E n \in 1..Len(pdf_paths) :
         \E i \in 1..Len(Produced(pdf_paths[n])) :
           /\ NoFieldMatches[pdf_paths[n]][i]
           /\ Produced(pdf_paths[n])[i]["ldap_display_name"] = None

\* ------------------------------------------------------------------------
\* Properties of the set algebra
\* ------------------------------------------------------------------------
\* A file's key set: its lines that are neither blank nor start with "#",
\* without surrounding white space and without one pair of wrapping braces.
KeySetOf(file) ==
    {LET l == Strip(file.lines[i])
     IN IF Len(l) >= 1 /\ l[1] = "{" /\ l[Len(l)] = "}" THEN Slice(l, 2, Len(l)) ELSE l :
       i \in {j \in 1..Len(file.lines) :
                /\ Strip(file.lines[j]) # <<>>
                /\ Strip(file.lines[j])[1] # "#"}}

KeysInAll(files) ==
    {k \in KeySetOf(files[1]) : \A i \in 1..Len(files) : k \in KeySetOf(files[i])}

KeysInAny(files) == UNION {KeySetOf(files[i]) : i \in 1..Len(files)}

\* C18: the result is the intersection of the key sets of the include_all
\* files, intersected with the union of those of the include_any files when
\* given, minus the union of those of the exclude files, also for distinct
\* files that share a base name.
C18_SetAlgebra ==
    spc = "done" =>
      result_set =
        (IF include_all # <<>>
         THEN IF include_any # <<>>
              THEN KeysInAll(include_all) \cap KeysInAny(include_any)
              ELSE KeysInAll(include_all)
         ELSE KeysInAny(include_any))
        \ KeysInAny(exclude)

\* ------------------------------------------------------------------------
\* Properties of load_schema_mappings
\* ------------------------------------------------------------------------
\* C19: every key of the schema file is mapped, to the entry's
\* ldapDisplayName when the entry has one, otherwise to its cn, otherwise to
\* "Unknown-<key>"; no other key is mapped.
C19_NameFallback ==
    lpc = "loaded" =>
      /\ DOMAIN mappings = DOMAIN json_file.data
      /\ \A guid \in DOMAIN json_file.data :
           LET attr_data == json_file.data[guid]
           IN /\ "ldapDisplayName" \in DOMAIN attr_data =>
                   mappings[guid] = attr_data["ldapDisplayName"]
              /\ ("ldapDisplayName" \notin DOMAIN attr_data /\ "cn" \in DOMAIN attr_data) =>
                   mappings[guid] = attr_data["cn"]
              /\ ("ldapDisplayName" \notin DOMAIN attr_data /\ "cn" \notin DOMAIN attr_data) =>
                   mappings[guid] =
                     [type |-> "string",
                      text |-> <<"U", "n", "k", "n", "o", "w", "n", "-">> \o guid]

\* A schema file was loaded that has an entry with both names, one with cn
\* only and one with neither.
C19_Witness ==
    /\ lpc = "loaded"
    /\ \E g1, g2, g3 \in DOMAIN json_file.data :
         /\ {"ldapDisplayName", "cn"} \subseteq DOMAIN json_file.data[g1]
         /\ mappings[g1] = JsonString(<<"n">>)
         /\ DOMAIN json_file.data[g2] = {"cn"}
         /\ mappings[g2] = JsonString(<<"c">>)
         /\ DOMAIN json_file.data[g3] \cap {"ldapDisplayName", "cn"} = {}
         /\ mappings[g3] = JsonString(UnknownName(g3))

\* ------------------------------------------------------------------------
\* Properties of key canonicalization
\* ------------------------------------------------------------------------
\* The records of source consolidated again into table, one key after another.
RECURSIVE Reinsert(_, _, _)
Reinsert(table, source, keys) ==
    IF keys = {} THEN table
    ELSE LET k == CHOOSE x \in keys : TRUE
         IN Reinsert(InsertAttribute(table, source[k]), source, keys \ {k})

\* C21: canonicalization is idempotent: every key of the consolidated table,
\* and the canonicalized key of every keyable record, is returned unchanged
\* by the canonicalization, and consolidating the table's records again
\* yields the table's key set.
C21_CanonicalizationIdempotent ==
    Consolidated =>
      /\ \A k \in DOMAIN all_attributes : CleanKey(k) = k
      /\ LET stream == RecordStream
         IN \A i \in 1..Len(stream) :
              Truthy(KeyOf(stream[i])) =>
                CleanKey(CleanKey(KeyOf(stream[i]))) = CleanKey(KeyOf(stream[i]))
      /\ DOMAIN Reinsert(EmptyDict, all_attributes, DOMAIN all_attributes)
           = DOMAIN all_attributes

\* A table holding a lowercase 36-character hyphenated key whose record was
\* written in upper case, next to a key the canonicalization never changed.
C21_Witness ==
    /\ Consolidated
    /\ \E k \in DOMAIN all_attributes :
         /\ Len(k) = GuidLen /\ HasHyphen(k)
         /\ KeyOf(all_attributes[k]) # k
         /\ Lower(KeyOf(all_attributes[k])) = k
    /\ \E k \in DOMAIN all_attributes :
         /\ Len(k) # GuidLen
         /\ KeyOf(all_attributes[k]) = k

\* ------------------------------------------------------------------------
\* Properties of segmentation
\* ------------------------------------------------------------------------
Returned == tpc = "returned"

\* The heading anchors of a text: every line start at which the heading
\* pattern "<section-number> Attribute <label>" matches, in document order.
HeadingAnchors(t) ==
    LET at == {p \in LineStarts(t) : HeaderMatchAt(t, p) # {}}
        nth[i \in 1..Cardinality(at)] ==
          CHOOSE p \in at : Cardinality({q \in at : q < p}) = i - 1
    IN [i \in 1..Cardinality(at) |-> CHOOSE m \in HeaderMatchAt(t, nth[i]) : TRUE]

\* C22: parse_attribute_blocks returns exactly one record per heading
\* anchor, in document order, each with a non-empty sourceSection equal to
\* its anchor's section number and with the given document name as
\* sourceDocument; a text without anchors gives the empty sequence.
C22_OneRecordPerAnchor ==
    Returned =>
      LET anchors == HeadingAnchors(text)
      IN /\ Len(attributes) = Len(anchors)
         /\ \A i \in 1..Len(attributes) :
              /\ i <= Len(anchors)
              /\ attributes[i]["source_section"] = anchors[i].section
              /\ attributes[i]["source_section"] # <<>>
              /\ attributes[i]["source_pdf"] = SourceName
         /\ anchors = <<>> => attributes = <<>>

\* The text between the i-th anchor of the scan and the next one, or the
\* window after the last anchor.
OwnText(i) ==
    LET ms == attribute_matches
        first == ms[i].start
        last == IF i < Len(ms) THEN ms[i + 1].start
                ELSE IF first + BlockWindow < Len(text) + 1 THEN first + BlockWindow
                ELSE Len(text) + 1
    IN SubSeq(text, first, last - 1)

TableBeforeExport == InsertFrom(EmptyDict, RecordStream, 1)

\* C24: an export leaves the consolidated table as it was: after
\* export_to_enhanced_json or export_to_json every record has the field
\* values consolidation gave it, as the strings that were captured (the
\* coerced values are in the exported entries only), so the raw export made
\* of the table after the schema export is the one made of it before.
C24_ExportKeepsTable ==
    pc = "done" =>
      /\ all_attributes = TableBeforeExport
      /\ RawData(all_attributes) = RawData(TableBeforeExport)
      /\ "raw" \in outputs => raw_data = RawData(TableBeforeExport)
      /\ "enhanced" \in outputs =>
           \A guid \in DOMAIN enhanced_schema :
             \A ef \in DOMAIN enhanced_schema[guid] \ {"ldapDisplayName"} :
               enhanced_schema[guid][ef] =
                 EnhancedValue(ef, all_attributes[guid][EnhancedSource(ef)])

\* The schema export wrote a number and a boolean for fields the table still
\* holds as the captured strings "007" and "TRUE".
C24_Witness ==
    /\ pc = "done"
    /\ "enhanced" \in outputs
    /\ \E guid \in DOMAIN all_attributes :
         /\ all_attributes[guid]["range_lower"] = <<"0", "0", "7">>
         /\ enhanced_schema[guid]["rangeLower"] = [type |-> "number", text |-> <<"7">>]
         /\ all_attributes[guid]["is_single_valued"] = <<"T", "R", "U", "E">>
         /\ enhanced_schema[guid]["isSingleValued"] = JsonTrue

\* ------------------------------------------------------------------------
\* Properties of where continuation repair applies
\* ------------------------------------------------------------------------
\* What is left of line k of block b for field f's value, the label being on
\* line j: the text after the label and colon on line j, the whole line after.
ValuePart(b, f, j, k) ==
    LET line == SplitLines(b)[k]
    IN IF k = j THEN Strip(Slice(line, Len(FieldLabel(f)) + 3, Len(line) + 1))
       ELSE Strip(line)

\* The first captured line of field f in block b whose first label line is
\* line j: the first line from j on that has a value part.  0 if there is none.
CapturedLine(b, f, j) ==
    LET ks == {k \in j..Len(SplitLines(b)) : ValuePart(b, f, j, k) # <<>>}
    IN IF ks = {} THEN 0 ELSE MinOf(ks)

\* C25: continuation repair applies to systemFlags and schemaFlagsEx only,
\* and only when the first captured line's value ends with "|": for every
\* other field, and for a flag field whose captured value does not end with
\* "|", the stored value is that line's value alone, white space normalized,
\* whatever double-indent lines follow (nothing or the empty string when no
\* line has a value).
C25_RepairOnlyFlagsWithBar ==
    Returned =>
      \A i \in 1..Len(attributes) :
        \A f \in PatternFields \ {"ldap_display_name"} :
          LabelLines(blocks[i], f) # {} =>
            LET j == MinOf(LabelLines(blocks[i], f))
                k == CapturedLine(blocks[i], f, j)
            IN IF k = 0 THEN attributes[i][f] \in {None, <<>>}
               ELSE LET value == ValuePart(blocks[i], f, j, k)
                    IN (f \notin FlagFields \/ ~EndsWith(value, <<"|">>)) =>
                         attributes[i][f] = Strip(NormalizeWhitespace(value))

\* One block in which searchFlags with a value ending in "|" and systemFlags
\* with a value not ending in "|" are each followed by a double-indent line
\* and stored as their own line's value.
C25_Witness ==
    /\ Returned
    /\ Len(attributes) = 1
    /\ LET lines == SplitLines(blocks[1])
       IN /\ \E j \in 1..(Len(lines) - 1) :
               /\ lines[j] = FieldLine("search_flags", <<"A", SP, "|">>)
               /\ MatchAt(lines[j + 1], 1, DoubleIndent)
          /\ \E j \in 1..(Len(lines) - 1) :
               /\ lines[j] = FieldLine("system_flags", <<"A">>)
               /\ MatchAt(lines[j + 1], 1, DoubleIndent)
    /\ attributes[1]["search_flags"] = <<"A", SP, "|">>
    /\ attributes[1]["system_flags"] = <<"A">>

\* ------------------------------------------------------------------------
\* Properties of the pipeline's output as its consumer reads it
\* ------------------------------------------------------------------------
\* str.upper()
Upper(s) ==
    SubSeq([i \in 1..Len(s) |->
              IF \E j \in 1..Len(LowerCase) : LowerCase[j] = s[i]
              THEN UpperCase[CHOOSE j \in 1..Len(LowerCase) : LowerCase[j] = s[i]]
              ELSE s[i]], 1, Len(s))

\* The spellings of a uniqueKey the lookup is to accept: as written, in
\* lower and in upper case, each with or without one pair of braces.
Spellings(guid) ==
    {guid, Lower(guid), Upper(guid)}
      \cup {Braced(g) : g \in {guid, Lower(guid), Upper(guid)}}

\* The table's records that were consolidated under a 36-character
\* hyphenated uniqueKey.
GuidKeyed ==
    {key \in DOMAIN all_attributes :
       /\ Truthy(all_attributes[key]["schema_id_guid"])
       /\ Len(all_attributes[key]["schema_id_guid"]) = GuidLen
       /\ HasHyphen(all_attributes[key]["schema_id_guid"])}

\* C26: for every record consolidated under a 36-character hyphenated
\* uniqueKey and exported, lookup_by_guid on the schema loaded from the export
\* returns the record's display name for the uniqueKey as the source document
\* wrote it, in either letter case, with or without wrapping braces.
C26_LookupAsWritten ==
    (kpc = "ready" /\ call.op = "lookup_by_guid") =>
      \A key \in GuidKeyed :
        call.arg \in Spellings(all_attributes[key]["schema_id_guid"]) =>
          result.value = JsonString(all_attributes[key]["ldap_display_name"])

\* C27: the schema file export_to_enhanced_json writes for a consolidated
\* table loads into a mapping with the table's keys in which every name is a
\* string, never null: the record's display name; so search_by_pattern and
\* the name-sorted listing return without raising.
C27_LoadedNamesAreStrings ==
    kpc = "ready" =>
      /\ {guid_to_name[i].key : i \in 1..Len(guid_to_name)} = DOMAIN all_attributes
      /\ \A i \in 1..Len(guid_to_name) :
           /\ guid_to_name[i].value.type = "string"
           /\ guid_to_name[i].value.text # None
           /\ guid_to_name[i].value.text =
                all_attributes[guid_to_name[i].key]["ldap_display_name"]
      /\ result.kind # "error"
      /\ call.op = "search_by_pattern" => result.kind = "matches"
      /\ call.op = "list_all" =>
           /\ result.kind = "listing"
           /\ Len(result.value) = Len(guid_to_name)

\* The listing of a loaded schema of two or more entries was made, one of
\* them a record whose display name came from its heading and whose block
\* had no field but the uniqueKey.
C27_Witness ==
    /\ kpc = "ready"
    /\ call.op = "list_all"
    /\ result.kind = "listing"
    /\ Len(result.value) >= 2
    /\ result.value[1].value.text # result.value[2].value.text
    /\ \E key \in GuidKeyed :
         DOMAIN enhanced_schema[key] = {"ldapDisplayName"}

\* ------------------------------------------------------------------------
\* Properties of SchemaLookup
\* ------------------------------------------------------------------------
\* The places in the forward mapping of the keys named name.
Holders(name) ==
    {i \in 1..Len(guid_to_name) : guid_to_name[i].value = JsonString(name)}

\* C28: whatever calls were made before, the reverse mapping, once built,
\* holds exactly the names of the forward mapping, each with the last key of
\* that name in mapping order; lookup_by_name(n) returns a key only if the
\* forward mapping gives that key the name n, None only if no key has the
\* name n, and the last key of the name n whenever there is one, so the same
\* on every call.
C28_ReverseConsistent ==
    /\ _name_to_guid.built =>
         /\ \A j \in 1..Len(_name_to_guid.items) :
              \E i \in 1..Len(guid_to_name) :
                /\ guid_to_name[i].key = _name_to_guid.items[j].value
                /\ guid_to_name[i].value = _name_to_guid.items[j].key
                /\ \A l \in (i + 1)..Len(guid_to_name) :
                     guid_to_name[l].value # guid_to_name[i].value
         /\ \A i \in 1..Len(guid_to_name) :
              \E j \in 1..Len(_name_to_guid.items) :
                _name_to_guid.items[j].key = guid_to_name[i].value
    /\ (kpc = "ready" /\ call.op = "lookup_by_name") =>
         /\ _name_to_guid.built
         /\ result.value # None =>
              \E i \in Holders(call.arg) : guid_to_name[i].key = result.value
         /\ result.value = None => Holders(call.arg) = {}
         /\ Holders(call.arg) # {} =>
              result.value = guid_to_name[MaxOf(Holders(call.arg))].key

\* lookup_by_name was called with a name that two keys share and returned
\* the later of them.
C28_Witness ==
    /\ kpc = "ready"
    /\ call.op = "lookup_by_name"
    /\ Cardinality(Holders(call.arg)) >= 2
    /\ result.value = guid_to_name[MaxOf(Holders(call.arg))].key
    /\ result.value # guid_to_name[MinOf(Holders(call.arg))].key

====
